---- MODULE Spec2Model ----
(***************************************************************************)
(* Model of the fleet-management hub of src/backend/server.js (the server  *)
(* that starts at line 809: devices, agent map, frame store, presence      *)
(* sweep, the WebSocket connection/message/close handlers and the REST and *)
(* MJPEG routes), with the compliance-event store and routes, which only   *)
(* the server at the top of the file has (lines 70-104 and 410-465).       *)
(*                                                                         *)
(* Every action is one callback of the event loop, run to completion.      *)
(* `out` holds the WebSocket messages the last callback sent, in order,    *)
(* and `http` the HTTP response it produced.  Of the log written by addLog *)
(* the callbacks keep here the msg of the newest entry, `lastLog`; the     *)
(* buffer itself, `logs`, is followed through the requests of SpecLogs.    *)
(*                                                                         *)
(* The desktop agent of src/desktop-agent/main.js is modelled beside the   *)
(* hub: its session state with the consent dialogs and capture loops that  *)
(* are waiting (each callback and each continuation after an await is one  *)
(* action), its reconnect timer, the global lock file with the agent       *)
(* processes of one machine (each file-system call is one action), and     *)
(* the choice of its tenant from LOOKOUT_TENANT and agent-config.json.     *)
(***************************************************************************)
EXTENDS Integers, Sequences, FiniteSets, TLC

\* ------------------------------------------------------------------------
\* Bounds of the model
\* ------------------------------------------------------------------------
MaxSockets == 3        \* WebSocket connections ever accepted
MaxViewers == 2        \* MJPEG responses open at the same time
MaxTicks == 1          \* advances of the wall clock
StartTime == 100000    \* Date.now() when the process starts
MaxEvents == 2         \* compliance events ever appended
MaxRequests == 510     \* requests for the log served
MaxPrompts == 2        \* consent dialogs open at the same time
MaxLoops == 2          \* capture loops alive at the same time
MaxConnects == 2       \* WebSockets the agent ever creates
MaxAgents == 3         \* agent processes ever started on the machine

\* ------------------------------------------------------------------------
\* Program constants
\* ------------------------------------------------------------------------
MIN_FRAME_INTERVAL_MS == 250
PRESENCE_TTL_MS == 15000
MAX_LOGS == 500

\* ------------------------------------------------------------------------
\* Input domains
\* ------------------------------------------------------------------------
Sockets == 1..MaxSockets
ViewerIds == 1..MaxViewers

DeviceIds == {"d1", "d2"}
NoDeviceId == ""                 \* normDeviceId(null)
BlankDeviceId == " "          \* a deviceId parameter of white space only
Versions == {"1.0.5"}
OlderVersion == "1.0.4"
NoVersion == "null"              \* agentVersion: null
Tenants == {"CLA1", "DLA2"}
NoTenant == ""
Roles == {"admin", "agent", "none"}

\* Payload of a decoded admin token.  The server reads only .username; the
\* allowedTenants the specification attaches to an identity ride along.
BadToken == [valid |-> FALSE, username |-> "", allowedTenants |-> {}]
AdminTokens ==
    { [valid |-> TRUE, username |-> "admin", allowedTenants |-> {"*"}],
      [valid |-> TRUE, username |-> "adminCLA", allowedTenants |-> {"CLA1"}] }
Tokens == AdminTokens \cup {BadToken}

Payloads == {"QUJD", "data:image/jpeg;base64,REVG"}
Absent == "undefined"            \* field missing from a JSON message

\* Labels a PUT of an alias can carry in its body, and their trim().
Labels == {"Caixa 1", " Caixa 1 ", "", " ", Absent}
TrimLabel(label) ==
    IF label = " Caixa 1 " THEN "Caixa 1" ELSE IF label = " " THEN "" ELSE label

\* Texts a compliance event can carry, and what detectCompliance finds in
\* them: no trigger, a trigger of the "por fora" family, an insult.
Contents == {"", "bom dia", "acerta por fora", "idiota"}
NoSeverity == "null"
detectCompliance(content) ==
    IF content = "acerta por fora"
    THEN [ suspicious |-> TRUE, severity |-> "high" ]
    ELSE IF content = "idiota"
         THEN [ suspicious |-> TRUE, severity |-> "low" ]
         ELSE [ suspicious |-> FALSE, severity |-> NoSeverity ]

\* Messages a peer can put on a WebSocket.
Messages ==
    { [json |-> FALSE] }
    \cup { [json |-> TRUE, type |-> "ping"], [json |-> TRUE, type |-> "other"] }
    \cup { [json |-> TRUE, type |-> "request_remote_access", deviceId |-> d] :
             d \in DeviceIds }
    \cup { [json |-> TRUE, type |-> "consent_response", accepted |-> a, deviceId |-> d] :
             a \in BOOLEAN, d \in DeviceIds }
    \cup { [json |-> TRUE, type |-> "frame", jpegBase64 |-> p, jpeg |-> Absent] :
             p \in Payloads \cup {"", Absent} }
    \cup { [json |-> TRUE, type |-> "screen_frame", jpegBase64 |-> Absent, jpeg |-> p] :
             p \in Payloads }

\* The clock advances by one of these amounts between callbacks: just
\* below and at the frame interval, at and just above the presence TTL.
FrameSteps == {MIN_FRAME_INTERVAL_MS - 1, MIN_FRAME_INTERVAL_MS}
PresenceSteps == {PRESENCE_TTL_MS, PRESENCE_TTL_MS + 1}
ClockSteps == FrameSteps \cup PresenceSteps

VARIABLES
    now,                      \* Date.now()
    ticks,                    \* clock advances so far
    devices,                  \* const devices = []
    wsAgentsByDeviceId,       \* Map deviceId -> socket (0: no entry)
    lastFrameByDevice,        \* deviceId -> payload ("": none)
    lastFrameSentAtByDevice,  \* deviceId -> ms (0: undefined)
    clients,                  \* the sockets of wss.clients and their fields
    viewers,                  \* open MJPEG responses
    out,                      \* messages sent by the last callback
    http,                     \* HTTP response of the last callback
    lastLog,                  \* logs[logs.length - 1].msg
    deviceAliases,            \* let deviceAliases: deviceId -> { label, updatedAt }
    aliasesFile,              \* content of data/device-aliases.json
    complianceEvents,         \* let complianceEvents = [...]
    complianceByDevice,       \* Map deviceId -> { count, lastAt, lastSeverity }
    complianceFile,           \* content of data/compliance-events.json
    logs,                     \* const logs = []: { level, msg, meta }
    requests,                 \* requests for the log received so far
    agent,                    \* main.js: ws, consentGranted, viewerActive, ...
    prompts,                  \* dialog.showMessageBox calls not yet answered
    loops,                    \* the loop closures of startStreaming
    sent,                     \* what the agent's last callback sent on ws
    lockFile,                 \* agent.lock: the file at LOCK_PATH
    procs,                    \* the agent processes and where they are
    config                    \* LOOKOUT_TENANT, agent-config.json, TENANT

aliasVars == << deviceAliases, aliasesFile >>
complianceVars == << complianceEvents, complianceByDevice, complianceFile >>
logVars == << logs, requests >>
agentVars == << agent, prompts, loops, sent >>
lockVars == << lockFile, procs >>
deskVars == << agentVars, lockVars, config >>
restVars == << complianceVars, logVars, deskVars >>

vars == << now, ticks, devices, wsAgentsByDeviceId, lastFrameByDevice,
           lastFrameSentAtByDevice, clients, viewers, out, http, lastLog,
           deviceAliases, aliasesFile, complianceEvents, complianceByDevice,
           complianceFile, logs, requests, agent, prompts, loops, sent,
           lockFile, procs, config >>

PromptIds == 1..MaxPrompts
LoopIds == 1..MaxLoops
AgentPids == 1..MaxAgents

\* Values of process.env.LOOKOUT_TENANT and of the tenant field of
\* agent-config.json ("undefined": no variable, no file, no field).
Undefined == "undefined"
TenantInputs == { Undefined, "", "CLA1", "CLA2", "DLA1", "DLA2", " cla2 ", "LOJA9" }
VALID_TENANTS == { "CLA1", "CLA2", "DLA1", "DLA2" }
DEFAULT_TENANT == "CLA1"
NoConfig == [ env |-> Undefined, onDisk |-> Undefined, file |-> Undefined,
              TENANT |-> Undefined ]

NoPrompt == [ kind |-> "none", stale |-> FALSE ]
NoLock == [ inode |-> 0, pid |-> 0 ]        \* no file at LOCK_PATH
NoProc == [ pc |-> "off", ownerPid |-> 0 ]

\* No entry for a deviceId in complianceByDevice.
NoAgg == [ count |-> 0, lastAt |-> 0, lastSeverity |-> NoSeverity ]

\* No entry for a deviceId in the alias object.
NoAlias == [ label |-> "undefined", updatedAt |-> 0 ]

NoSocket == [ readyState |-> "NONE", isAdmin |-> FALSE, isAgent |-> FALSE,
              deviceId |-> NoDeviceId, adminUser |-> "", listening |-> FALSE,
              allowedTenants |-> {} ]
NoViewer == [ alive |-> FALSE, deviceId |-> NoDeviceId ]
NoHttp == [ status |-> 0 ]

\* ------------------------------------------------------------------------
\* Helpers
\* ------------------------------------------------------------------------
\* String(id || "").trim() on the ids of the model.
normDeviceId(id) == IF id = BlankDeviceId THEN NoDeviceId ELSE id

\* A file is its text: complete says the text is whole (JSON.parse takes
\* it), entries what the text lists.
NoFile == [ complete |-> TRUE, entries |-> {} ]      \* fs.existsSync is false

\* JSON.stringify(obj): the file text is the set of the object's own
\* entries, each a deviceId with its label and updatedAt.
JsonStringify(obj) ==
    [ complete |-> TRUE,
      entries |-> { << d, obj[d].label, obj[d].updatedAt >> :
                      d \in { x \in DeviceIds : obj[x] # NoAlias } } ]

\* fs.writeFileSync cut short: the file was truncated and holds a proper
\* prefix of the text.
PartialWrite(text) == [ complete |-> FALSE, entries |-> text.entries ]

\* loadJsonSafe(ALIASES_PATH, {}): the object parsed from the file text,
\* the fallback {} when the file is not there or JSON.parse throws.
loadJsonSafe(file) ==
    [ d \in DeviceIds |->
        IF file.complete /\ \E e \in file.entries : e[1] = d
        THEN LET e == CHOOSE x \in file.entries : x[1] = d
             IN [ label |-> e[2], updatedAt |-> e[3] ]
        ELSE NoAlias ]

\* JSON.stringify(complianceEvents): the array text lists each event at
\* its index.
StringifyEvents(events) ==
    [ complete |-> TRUE,
      entries |-> { << i, events[i].deviceId, events[i].timestamp,
                       events[i].severity, events[i].suspicious >> :
                      i \in 1..Len(events) } ]

\* loadJsonSafe(COMPLIANCE_EVENTS_PATH, []): the array parsed from the
\* file text, the fallback [] when there is no file or JSON.parse throws.
loadComplianceEvents(file) ==
    IF ~file.complete
    THEN << >>
    ELSE [ i \in 1..Cardinality(file.entries) |->
             LET e == CHOOSE x \in file.entries : x[1] = i
             IN [ deviceId |-> e[2], timestamp |-> e[3], severity |-> e[4],
                  suspicious |-> e[5] ] ]

\* Mutant: only the suspicious events count.
recomputeComplianceAgg_SuspiciousOnly(events) ==
    LET F[i \in 0..Len(events)] ==
            IF i = 0 THEN [d \in DeviceIds |-> NoAgg]
            ELSE LET ev == events[i]
                     prev == F[i - 1][ev.deviceId]
                 IN IF ~ev.suspicious THEN F[i - 1]
                    ELSE [ F[i - 1] EXCEPT ![ev.deviceId] =
                             [ count |-> prev.count + 1,
                               lastAt |-> ev.timestamp,
                               lastSeverity |-> ev.severity ] ]
    IN F[Len(events)]

\* recomputeComplianceAgg: every event of the list counts for its device;
\* the newest timestamp gives lastAt, and lastSeverity unless the event
\* has none.
recomputeComplianceAgg(events) ==
    LET F[i \in 0..Len(events)] ==
            IF i = 0 THEN [d \in DeviceIds |-> NoAgg]
            ELSE LET ev == events[i]
                     prev == F[i - 1][ev.deviceId]
                     newer == ev.timestamp >= prev.lastAt
                 IN [ F[i - 1] EXCEPT ![ev.deviceId] =
                        [ count |-> prev.count + 1,
                          lastAt |-> IF newer THEN ev.timestamp ELSE prev.lastAt,
                          lastSeverity |->
                              IF newer /\ ev.severity # NoSeverity
                              THEN ev.severity ELSE prev.lastSeverity ] ]
    IN F[Len(events)]

\* Index of the device in the array, 0 when devices.find gives undefined.
findDevice(devs, id) ==
    IF \E i \in 1..Len(devs) : devs[i].id = id
    THEN CHOOSE i \in 1..Len(devs) : devs[i].id = id
    ELSE 0

upsertDevice(devs, id) ==
    IF findDevice(devs, id) # 0
    THEN devs
    ELSE Append(devs, [ id |-> id, connected |-> FALSE, lastSeen |-> 0,
                        agentVersion |-> NoVersion ])

safeSend(cl, to, obj) ==
    IF to # 0 /\ cl[to].readyState = "OPEN"
    THEN << [to |-> to, msg |-> obj] >>
    ELSE << >>

broadcastToAdmins(cl, obj) ==
    LET F[i \in 0..MaxSockets] ==
            IF i = 0 THEN << >>
            ELSE IF cl[i].isAdmin /\ cl[i].readyState = "OPEN"
                 THEN Append(F[i - 1], [to |-> i, msg |-> obj])
                 ELSE F[i - 1]
    IN F[MaxSockets]

jwtVerify(token) == token.valid

\* Mutant: a full buffer keeps its oldest entries and drops the new one.
addLog_KeepsOldest(lg, level, msg, meta) ==
    LET pushed == Append(lg, [ level |-> level, msg |-> msg, meta |-> meta ])
    IN IF Len(pushed) > MAX_LOGS THEN SubSeq(pushed, 1, MAX_LOGS) ELSE pushed

\* addLog: logs.push(entry); if (logs.length > MAX_LOGS) logs.shift()
addLog(lg, level, msg, meta) ==
    LET pushed == Append(lg, [ level |-> level, msg |-> msg, meta |-> meta ])
    IN IF Len(pushed) > MAX_LOGS THEN Tail(pushed) ELSE pushed

\* The log of a process that has just started.
StartupLogs == addLog(<< >>, "INFO", "Admin Console build detectado", 0)

\* ------------------------------------------------------------------------
\* Initial state: the process has just started
\* ------------------------------------------------------------------------
Init ==
    /\ now = StartTime
    /\ ticks = 0
    /\ devices = << >>
    /\ wsAgentsByDeviceId = [d \in DeviceIds |-> 0]
    /\ lastFrameByDevice = [d \in DeviceIds |-> ""]
    /\ lastFrameSentAtByDevice = [d \in DeviceIds |-> 0]
    /\ clients = [s \in Sockets |-> NoSocket]
    /\ viewers = [v \in ViewerIds |-> NoViewer]
    /\ out = << >>
    /\ http = NoHttp
    /\ lastLog = "Admin Console build detectado"
    /\ aliasesFile = NoFile
    /\ deviceAliases = loadJsonSafe(aliasesFile)
    /\ complianceFile = NoFile
    /\ complianceEvents = loadComplianceEvents(complianceFile)
    /\ complianceByDevice = recomputeComplianceAgg(complianceEvents)
    /\ logs = StartupLogs
    /\ requests = 0
    /\ agent = [ ws |-> "NONE", connects |-> 0, consentGranted |-> FALSE,
                 viewerActive |-> FALSE, streaming |-> FALSE,
                 consentPromptOpen |-> FALSE, enabledOnWs |-> FALSE,
                 staleGrant |-> FALSE, timers |-> 0, listeners |-> 0 ]
    /\ prompts = [i \in PromptIds |-> NoPrompt]
    /\ loops = [l \in LoopIds |-> "none"]
    /\ sent = << >>
    /\ lockFile = NoLock
    /\ procs = [p \in AgentPids |-> NoProc]
    /\ config = NoConfig

\* ------------------------------------------------------------------------
\* The clock
\* ------------------------------------------------------------------------
Tick(dt) ==
    /\ ticks < MaxTicks
    /\ now' = now + dt
    /\ ticks' = ticks + 1
    /\ out' = << >>
    /\ http' = NoHttp
    /\ UNCHANGED << restVars, aliasVars, lastLog, devices, wsAgentsByDeviceId, lastFrameByDevice,
                    lastFrameSentAtByDevice, clients, viewers >>

\* ------------------------------------------------------------------------
\* wss.on("connection")
\* ------------------------------------------------------------------------
PresenceOnline(deviceId, d) ==
    [ type |-> "device_presence", deviceId |-> deviceId, online |-> TRUE,
      lastSeen |-> d.lastSeen, agentVersion |-> d.agentVersion ]

PresenceOffline(deviceId, t) ==
    [ type |-> "device_presence", deviceId |-> deviceId, online |-> FALSE,
      lastSeen |-> t ]

\* role=admin with a token that verifies: flag the socket, send the snapshot.
AdmitAdmin(s, token) ==
    /\ clients' = [clients EXCEPT ![s] =
                      [NoSocket EXCEPT !.readyState = "OPEN",
                                       !.isAdmin = TRUE,
                                       !.adminUser = token.username,
                                       !.allowedTenants = token.allowedTenants,
                                       !.listening = TRUE]]
    /\ out' = safeSend(clients', s, [type |-> "devices_snapshot", devices |-> devices])
    /\ lastLog' = "Admin conectado"
    /\ UNCHANGED << devices, wsAgentsByDeviceId >>

\* Mutant: the bad token is logged but the socket is neither closed nor
\* left without handlers.
RejectAdmin_KeepsOpen(s) ==
    /\ clients' = [clients EXCEPT ![s] =
                      [NoSocket EXCEPT !.readyState = "OPEN", !.listening = TRUE]]
    /\ out' = << >>
    /\ lastLog' = "Admin WS token invalido"
    /\ UNCHANGED << devices, wsAgentsByDeviceId >>

\* role=admin with a bad token: ws.close(1008) and return before any
\* handler is registered.
RejectAdmin(s) ==
    /\ clients' = [clients EXCEPT ![s] = [NoSocket EXCEPT !.readyState = "CLOSING"]]
    /\ out' = << >>
    /\ lastLog' = "Admin WS token invalido"
    /\ UNCHANGED << devices, wsAgentsByDeviceId >>

\* Mutant: agentVersion is overwritten also when the URL carries no v.
AdmitAgent_VersionAlways(s, deviceId, v) ==
    LET devs1 == upsertDevice(devices, deviceId)
        i == findDevice(devs1, deviceId)
        devs2 == [devs1 EXCEPT ![i].connected = TRUE,
                               ![i].lastSeen = now,
                               ![i].agentVersion = v]
    IN /\ devices' = devs2
       /\ clients' = [clients EXCEPT ![s] =
                         [NoSocket EXCEPT !.readyState = "OPEN",
                                          !.isAgent = TRUE,
                                          !.deviceId = deviceId,
                                          !.listening = TRUE]]
       /\ wsAgentsByDeviceId' = [wsAgentsByDeviceId EXCEPT ![deviceId] = s]
       /\ out' = broadcastToAdmins(clients', PresenceOnline(deviceId, devs2[i]))
       /\ lastLog' = "Agent conectado"

\* role=agent with a deviceId: upsert, mark connected, register, broadcast.
AdmitAgent(s, deviceId, v) ==
    LET devs1 == upsertDevice(devices, deviceId)
        i == findDevice(devs1, deviceId)
        devs2 == [devs1 EXCEPT ![i].connected = TRUE,
                               ![i].lastSeen = now,
                               ![i].agentVersion = IF v # NoVersion THEN v ELSE @]
    IN /\ devices' = devs2
       /\ clients' = [clients EXCEPT ![s] =
                         [NoSocket EXCEPT !.readyState = "OPEN",
                                          !.isAgent = TRUE,
                                          !.deviceId = deviceId,
                                          !.listening = TRUE]]
       /\ wsAgentsByDeviceId' = [wsAgentsByDeviceId EXCEPT ![deviceId] = s]
       /\ out' = broadcastToAdmins(clients', PresenceOnline(deviceId, devs2[i]))
       /\ lastLog' = "Agent conectado"

\* Any other connection: no role is set, the handlers are registered.
AcceptPlain(s) ==
    /\ clients' = [clients EXCEPT ![s] =
                      [NoSocket EXCEPT !.readyState = "OPEN", !.listening = TRUE]]
    /\ out' = << >>
    /\ lastLog' = "WS connection"
    /\ UNCHANGED << devices, wsAgentsByDeviceId >>

Connection(s, role, deviceId, token, v) ==
    /\ clients[s].readyState = "NONE"
    /\ \A r \in Sockets : r < s => clients[r].readyState # "NONE"
    /\ IF role = "admin"
       THEN IF jwtVerify(token) THEN AdmitAdmin(s, token) ELSE RejectAdmin(s)
       ELSE IF role = "agent" /\ normDeviceId(deviceId) # NoDeviceId
            THEN AdmitAgent(s, normDeviceId(deviceId), v)
            ELSE AcceptPlain(s)
    /\ http' = NoHttp
    /\ UNCHANGED << restVars, aliasVars, now, ticks, lastFrameByDevice, lastFrameSentAtByDevice, viewers >>

\* The upgrade request of an agent: ?role=agent&deviceId=..&tenant=..&v=..
\* The handler reads role, deviceId, token and v; tenant is not read.
AgentConnection(s, deviceId, tenant, v) ==
    Connection(s, "agent", deviceId, BadToken, v)

\* ------------------------------------------------------------------------
\* ws.on("message")
\* ------------------------------------------------------------------------
\* Mutant: a ping stamps the device with the time the process started.
HandlePing_StartTime(s) ==
    /\ IF clients[s].isAgent /\ clients[s].deviceId # NoDeviceId
       THEN LET devs1 == upsertDevice(devices, clients[s].deviceId)
                i == findDevice(devs1, clients[s].deviceId)
            IN devices' = [devs1 EXCEPT ![i].lastSeen = StartTime]
       ELSE devices' = devices
    /\ out' = safeSend(clients, s, [type |-> "pong"])
    /\ lastLog' = "WS message"
    /\ UNCHANGED << wsAgentsByDeviceId, lastFrameByDevice, lastFrameSentAtByDevice >>

\* Mutant: a heartbeat brings the device back: connected is set and the
\* admins are told.
HandlePing_Revives(s) ==
    /\ IF clients[s].isAgent /\ clients[s].deviceId # NoDeviceId
       THEN LET devs1 == upsertDevice(devices, clients[s].deviceId)
                i == findDevice(devs1, clients[s].deviceId)
                devs2 == [devs1 EXCEPT ![i].lastSeen = now, ![i].connected = TRUE]
            IN /\ devices' = devs2
               /\ out' = safeSend(clients, s, [type |-> "pong"])
                           \o IF devs1[i].connected THEN << >>
                              ELSE broadcastToAdmins(clients,
                                     PresenceOnline(clients[s].deviceId, devs2[i]))
       ELSE /\ devices' = devices
            /\ out' = safeSend(clients, s, [type |-> "pong"])
    /\ lastLog' = "WS message"
    /\ UNCHANGED << wsAgentsByDeviceId, lastFrameByDevice, lastFrameSentAtByDevice >>

\* { type: "ping" }: refresh lastSeen of an agent's device, answer pong.
HandlePing(s) ==
    /\ IF clients[s].isAgent /\ clients[s].deviceId # NoDeviceId
       THEN LET devs1 == upsertDevice(devices, clients[s].deviceId)
                i == findDevice(devs1, clients[s].deviceId)
            IN devices' = [devs1 EXCEPT ![i].lastSeen = now]
       ELSE devices' = devices
    /\ out' = safeSend(clients, s, [type |-> "pong"])
    /\ lastLog' = "WS message"
    /\ UNCHANGED << wsAgentsByDeviceId, lastFrameByDevice, lastFrameSentAtByDevice >>

\* Mutant: the agent is looked up among the open agent sockets, not in the
\* map under the requested deviceId.
HandleRequestRemoteAccess_AnyAgent(s, m) ==
    LET targetId == m.deviceId
        open == { a \in Sockets : clients[a].isAgent /\ clients[a].readyState = "OPEN" }
        agentWs == IF open = {} THEN 0 ELSE CHOOSE a \in open : \A b \in open : a <= b
    IN /\ IF agentWs = 0
          THEN out' = safeSend(clients, s,
                         [ type |-> "consent_response", deviceId |-> targetId,
                           accepted |-> FALSE, reason |-> "agent_offline" ])
          ELSE out' = safeSend(clients, agentWs,
                         [ type |-> "consent_request", admin |-> clients[s].adminUser ])
                      \o safeSend(clients, s,
                         [ type |-> "consent_status", deviceId |-> targetId,
                           status |-> "sent_to_agent" ])
       /\ lastLog' = "request_remote_access"
       /\ UNCHANGED << devices, wsAgentsByDeviceId, lastFrameByDevice,
                       lastFrameSentAtByDevice >>

\* Mutant: an offline agent is reported as an error message (as the earlier
\* server of the same file did) and the device is registered.
HandleRequestRemoteAccess_OfflineError(s, m) ==
    LET targetId == m.deviceId
        agentWs == wsAgentsByDeviceId[targetId]
    IN /\ IF agentWs = 0 \/ clients[agentWs].readyState # "OPEN"
          THEN /\ out' = safeSend(clients, s,
                            [ type |-> "error", message |-> "Dispositivo offline" ])
               /\ devices' = upsertDevice(devices, targetId)
          ELSE /\ out' = safeSend(clients, agentWs,
                            [ type |-> "consent_request", admin |-> clients[s].adminUser ])
                         \o safeSend(clients, s,
                            [ type |-> "consent_status", deviceId |-> targetId,
                              status |-> "sent_to_agent" ])
               /\ devices' = devices
       /\ lastLog' = "request_remote_access"
       /\ UNCHANGED << wsAgentsByDeviceId, lastFrameByDevice, lastFrameSentAtByDevice >>

\* Admin: request_remote_access{deviceId}.
HandleRequestRemoteAccess(s, m) ==
    LET targetId == m.deviceId
        agentWs == wsAgentsByDeviceId[targetId]
    IN /\ IF agentWs = 0 \/ clients[agentWs].readyState # "OPEN"
          THEN out' = safeSend(clients, s,
                         [ type |-> "consent_response", deviceId |-> targetId,
                           accepted |-> FALSE, reason |-> "agent_offline" ])
          ELSE out' = safeSend(clients, agentWs,
                         [ type |-> "consent_request", admin |-> clients[s].adminUser ])
                      \o safeSend(clients, s,
                         [ type |-> "consent_status", deviceId |-> targetId,
                           status |-> "sent_to_agent" ])
       /\ lastLog' = "request_remote_access"
       /\ UNCHANGED << devices, wsAgentsByDeviceId, lastFrameByDevice,
                       lastFrameSentAtByDevice >>

\* Mutant: the relayed deviceId is read from the message body.
HandleConsentResponse_BodyDeviceId(s, m) ==
    /\ out' = broadcastToAdmins(clients,
                 [ type |-> "consent_response", deviceId |-> m.deviceId,
                   accepted |-> m.accepted ])
    /\ lastLog' = "consent_response"
    /\ UNCHANGED << devices, wsAgentsByDeviceId, lastFrameByDevice,
                    lastFrameSentAtByDevice >>

\* Agent: consent_response{accepted}.
HandleConsentResponse(s, m) ==
    /\ out' = broadcastToAdmins(clients,
                 [ type |-> "consent_response", deviceId |-> clients[s].deviceId,
                   accepted |-> m.accepted ])
    /\ lastLog' = "consent_response"
    /\ UNCHANGED << devices, wsAgentsByDeviceId, lastFrameByDevice,
                    lastFrameSentAtByDevice >>

\* The string the frame handler takes from a frame message.
FramePayload(m) ==
    IF m.jpegBase64 # Absent THEN m.jpegBase64
    ELSE IF m.jpeg # Absent THEN m.jpeg
    ELSE ""

\* The throttle: a frame is dropped when it comes too soon after the last
\* stored one.
Throttled(lastAt, t) == t - lastAt < MIN_FRAME_INTERVAL_MS

\* Mutant: the frame is stored before the throttle is consulted (as the
\* earlier server of the same file did).
HandleFrame_StoreBeforeThrottle(s, m) ==
    LET id == clients[s].deviceId
        payload == FramePayload(m)
        devs1 == upsertDevice(devices, id)
        i == findDevice(devs1, id)
        lastAt == lastFrameSentAtByDevice[id]
        t == now
    IN /\ out' = << >>
       /\ UNCHANGED wsAgentsByDeviceId
       /\ IF payload = ""
          THEN /\ lastLog' = "WS message"
               /\ UNCHANGED << devices, lastFrameByDevice, lastFrameSentAtByDevice >>
          ELSE /\ devices' = [devs1 EXCEPT ![i].lastSeen = now]
               /\ lastFrameByDevice' = [lastFrameByDevice EXCEPT ![id] = payload]
               /\ IF Throttled(lastAt, t)
                  THEN /\ lastLog' = "WS message"
                       /\ UNCHANGED lastFrameSentAtByDevice
                  ELSE /\ lastFrameSentAtByDevice' =
                              [lastFrameSentAtByDevice EXCEPT ![id] = t]
                       /\ lastLog' = "frame_received"

\* Mutant: the throttle is consulted before the presence is refreshed, so
\* a dropped frame leaves lastSeen as it was.
HandleFrame_ThrottleBeforePresence(s, m) ==
    LET id == clients[s].deviceId
        payload == FramePayload(m)
        devs1 == upsertDevice(devices, id)
        i == findDevice(devs1, id)
        lastAt == lastFrameSentAtByDevice[id]
        t == now
    IN /\ out' = << >>
       /\ UNCHANGED wsAgentsByDeviceId
       /\ IF payload = "" \/ Throttled(lastAt, t)
          THEN /\ lastLog' = "WS message"
               /\ UNCHANGED << devices, lastFrameByDevice, lastFrameSentAtByDevice >>
          ELSE /\ devices' = [devs1 EXCEPT ![i].lastSeen = now]
               /\ lastFrameSentAtByDevice' =
                      [lastFrameSentAtByDevice EXCEPT ![id] = t]
               /\ lastFrameByDevice' = [lastFrameByDevice EXCEPT ![id] = payload]
               /\ lastLog' = "frame_received"

\* Agent: frame / screen_frame.
HandleFrame(s, m) ==
    LET id == clients[s].deviceId
        payload == FramePayload(m)
        devs1 == upsertDevice(devices, id)
        i == findDevice(devs1, id)
        lastAt == lastFrameSentAtByDevice[id]
        t == now
    IN /\ out' = << >>
       /\ UNCHANGED wsAgentsByDeviceId
       /\ IF payload = ""
          THEN /\ lastLog' = "WS message"
               /\ UNCHANGED << devices, lastFrameByDevice, lastFrameSentAtByDevice >>
          ELSE /\ devices' = [devs1 EXCEPT ![i].lastSeen = now]
               /\ IF Throttled(lastAt, t)
                  THEN /\ lastLog' = "WS message"
                       /\ UNCHANGED << lastFrameByDevice, lastFrameSentAtByDevice >>
                  ELSE /\ lastFrameSentAtByDevice' =
                              [lastFrameSentAtByDevice EXCEPT ![id] = t]
                       /\ lastFrameByDevice' = [lastFrameByDevice EXCEPT ![id] = payload]
                       /\ lastLog' = "frame_received"

\* Mutant: the sender of a message that is not handled is told so.
IgnoreMessage_RepliesError(m) ==
    /\ out' = << [to |-> 1, msg |-> [type |-> "error"]] >>
    /\ lastLog' = IF m.json THEN "WS message" ELSE "WS mensagem nao-JSON"
    /\ UNCHANGED << devices, wsAgentsByDeviceId, lastFrameByDevice,
                    lastFrameSentAtByDevice >>

\* Non-JSON data, or a type the socket's role does not handle.
IgnoreMessage(m) ==
    /\ out' = << >>
    /\ lastLog' = IF m.json THEN "WS message" ELSE "WS mensagem nao-JSON"
    /\ UNCHANGED << devices, wsAgentsByDeviceId, lastFrameByDevice,
                    lastFrameSentAtByDevice >>

\* Mutant: a consent_response is relayed whatever the role of its sender.
OnMessage_ConsentFromAnyone(s, m) ==
    /\ clients[s].readyState = "OPEN"
    /\ clients[s].listening
    /\ IF ~m.json THEN IgnoreMessage(m)
       ELSE IF m.type = "ping" THEN HandlePing(s)
       ELSE IF clients[s].isAdmin /\ m.type = "request_remote_access"
            THEN HandleRequestRemoteAccess(s, m)
       ELSE IF m.type = "consent_response"
            THEN HandleConsentResponse(s, m)
       ELSE IF clients[s].isAgent /\ m.type \in {"frame", "screen_frame"}
            THEN HandleFrame(s, m)
       ELSE IgnoreMessage(m)
    /\ http' = NoHttp
    /\ UNCHANGED << restVars, aliasVars, now, ticks, clients, viewers >>

OnMessage(s, m) ==
    /\ clients[s].readyState = "OPEN"
    /\ clients[s].listening
    /\ IF ~m.json THEN IgnoreMessage(m)
       ELSE IF m.type = "ping" THEN HandlePing(s)
       ELSE IF clients[s].isAdmin /\ m.type = "request_remote_access"
            THEN HandleRequestRemoteAccess(s, m)
       ELSE IF clients[s].isAgent /\ m.type = "consent_response"
            THEN HandleConsentResponse(s, m)
       ELSE IF clients[s].isAgent /\ m.type \in {"frame", "screen_frame"}
            THEN HandleFrame(s, m)
       ELSE IgnoreMessage(m)
    /\ http' = NoHttp
    /\ UNCHANGED << restVars, aliasVars, now, ticks, clients, viewers >>

\* ------------------------------------------------------------------------
\* Closing of a socket
\* ------------------------------------------------------------------------
\* The closing handshake has started: readyState leaves OPEN, the close
\* event has not been emitted yet.
BeginClose(s) ==
    /\ clients[s].readyState = "OPEN"
    /\ clients' = [clients EXCEPT ![s].readyState = "CLOSING"]
    /\ out' = << >>
    /\ http' = NoHttp
    /\ UNCHANGED << restVars, aliasVars, lastLog, now, ticks, devices, wsAgentsByDeviceId, lastFrameByDevice,
                    lastFrameSentAtByDevice, viewers >>

\* Mutant: the close handler forgets to clear devices[d].connected.
AgentClosed_KeepsConnected(s) ==
    LET id == clients[s].deviceId
    IN /\ devices' = devices
       /\ wsAgentsByDeviceId' = [wsAgentsByDeviceId EXCEPT ![id] = 0]
       /\ out' = broadcastToAdmins(clients', PresenceOffline(id, now))

\* ws.on("close") of an agent socket.
AgentClosed(s) ==
    LET id == clients[s].deviceId
        i == findDevice(devices, id)
    IN /\ devices' = IF i # 0 THEN [devices EXCEPT ![i].connected = FALSE] ELSE devices
       /\ wsAgentsByDeviceId' = [wsAgentsByDeviceId EXCEPT ![id] = 0]
       /\ out' = broadcastToAdmins(clients', PresenceOffline(id, now))

OnClose(s) ==
    /\ clients[s].readyState \in {"OPEN", "CLOSING"}
    /\ clients' = [clients EXCEPT ![s].readyState = "CLOSED"]
    /\ IF clients[s].listening /\ clients[s].isAgent /\ clients[s].deviceId # NoDeviceId
       THEN AgentClosed(s)
       ELSE /\ out' = << >>
            /\ UNCHANGED << devices, wsAgentsByDeviceId >>
    /\ http' = NoHttp
    /\ lastLog' = "WS close"
    /\ UNCHANGED << restVars, aliasVars, now, ticks, lastFrameByDevice, lastFrameSentAtByDevice, viewers >>

\* ------------------------------------------------------------------------
\* Presence TTL cleanup (setInterval, 3000 ms)
\* ------------------------------------------------------------------------
\* Mutant: only a device whose agent socket is gone from the map expires.
Expired_SocketGone(d, t) ==
    /\ d.connected
    /\ d.lastSeen # 0
    /\ t - d.lastSeen > PRESENCE_TTL_MS
    /\ wsAgentsByDeviceId[d.id] = 0

\* Mutant: the TTL comparison includes the boundary.
Expired_AtTtl(d, t) ==
    /\ d.connected
    /\ d.lastSeen # 0
    /\ t - d.lastSeen >= PRESENCE_TTL_MS

Expired(d, t) ==
    /\ d.connected
    /\ d.lastSeen # 0
    /\ t - d.lastSeen > PRESENCE_TTL_MS

SweepDevices(devs, t) ==
    [ i \in 1..Len(devs) |->
        IF Expired(devs[i], t) THEN [devs[i] EXCEPT !.connected = FALSE] ELSE devs[i] ]

SweepBroadcasts(devs, cl, t) ==
    LET F[i \in 0..Len(devs)] ==
            IF i = 0 THEN << >>
            ELSE IF Expired(devs[i], t)
                 THEN F[i - 1] \o broadcastToAdmins(cl, PresenceOffline(devs[i].id, t))
                 ELSE F[i - 1]
    IN F[Len(devs)]

PresenceSweep ==
    /\ devices' = SweepDevices(devices, now)
    /\ out' = SweepBroadcasts(devices, clients, now)
    /\ http' = NoHttp
    /\ lastLog' = IF \E i \in 1..Len(devices) : Expired(devices[i], now)
                  THEN "Presence TTL: marcando device offline"
                  ELSE lastLog
    /\ UNCHANGED << restVars, aliasVars, now, ticks, wsAgentsByDeviceId, lastFrameByDevice,
                    lastFrameSentAtByDevice, clients, viewers >>

\* ------------------------------------------------------------------------
\* REST and MJPEG
\* ------------------------------------------------------------------------
\* GET /api/devices
GetDevices(token) ==
    /\ http' = IF jwtVerify(token)
               THEN [ status |-> 200, allowed |-> token.allowedTenants,
                      body |-> [ i \in 1..Len(devices) |->
                                 [ id |-> devices[i].id,
                                   connected |-> devices[i].connected,
                                   online |-> devices[i].connected,
                                   lastSeen |-> devices[i].lastSeen,
                                   agentVersion |-> devices[i].agentVersion ] ] ]
               ELSE [ status |-> 401 ]
    /\ out' = << >>
    /\ lastLog' = "HTTP GET /api/devices"
    /\ UNCHANGED << restVars, aliasVars, now, ticks, devices, wsAgentsByDeviceId, lastFrameByDevice,
                    lastFrameSentAtByDevice, clients, viewers >>

\* GET /api/devices/:deviceId/mjpeg
OpenMjpeg(v, token, deviceId) ==
    /\ ~viewers[v].alive
    /\ \A u \in ViewerIds : u < v => viewers[u].alive
    /\ IF jwtVerify(token)
       THEN /\ viewers' = [viewers EXCEPT ![v] = [alive |-> TRUE, deviceId |-> deviceId]]
            /\ http' = [ status |-> 200, allowed |-> token.allowedTenants,
                         deviceId |-> deviceId ]
       ELSE /\ viewers' = viewers
            /\ http' = [ status |-> 401 ]
    /\ out' = << >>
    /\ lastLog' = "HTTP GET /api/devices/:deviceId/mjpeg"
    /\ UNCHANGED << restVars, aliasVars, now, ticks, devices, wsAgentsByDeviceId, lastFrameByDevice,
                    lastFrameSentAtByDevice, clients >>

\* req.on("close") of an MJPEG response
CloseMjpeg(v) ==
    /\ viewers[v].alive
    /\ viewers' = [viewers EXCEPT ![v] = NoViewer]
    /\ out' = << >>
    /\ http' = NoHttp
    /\ UNCHANGED << restVars, aliasVars, lastLog, now, ticks, devices, wsAgentsByDeviceId, lastFrameByDevice,
                    lastFrameSentAtByDevice, clients >>

\* ------------------------------------------------------------------------
\* Stream routes: authenticateAdminFlex, GET /frame, the MJPEG timer
\* ------------------------------------------------------------------------
\* Token strings a request can carry ("": none) and what jwt.verify makes
\* of them.
NoTokenString == ""
TokenStrings == {NoTokenString, "jwt-admin", "jwt-adminCLA", "garbage"}

jwtDecode(str) ==
    IF \E t \in AdminTokens : str = "jwt-" \o t.username
    THEN CHOOSE t \in AdminTokens : str = "jwt-" \o t.username
    ELSE BadToken

\* The Authorization header: absent, or a scheme and its credentials.
NoAuthorization == [scheme |-> "", value |-> NoTokenString]
AuthHeaders ==
    {NoAuthorization}
    \cup { [scheme |-> sch, value |-> t] :
             sch \in {"Bearer", "Basic"}, t \in TokenStrings \ {NoTokenString} }

\* Authorization: Bearer <t>
BearerHeader(t) == [scheme |-> "Bearer", value |-> t]

getBearerToken(h) == IF h.scheme = "Bearer" THEN h.value ELSE NoTokenString

\* Mutant: the query parameter is not consulted.
authenticateAdminFlex_HeaderOnly(h, q) ==
    LET token == getBearerToken(h)
    IN IF token = NoTokenString
       THEN [ status |-> 401, error |-> "Token necessario", admin |-> BadToken ]
       ELSE IF jwtVerify(jwtDecode(token))
            THEN [ status |-> 200, error |-> "", admin |-> jwtDecode(token) ]
            ELSE [ status |-> 401, error |-> "Token invalido", admin |-> BadToken ]

\* Authorization: Bearer ... or ?token=...; status 200 stands for next().
authenticateAdminFlex(h, q) ==
    LET tokenFromHeader == getBearerToken(h)
        token == IF tokenFromHeader # NoTokenString THEN tokenFromHeader ELSE q
    IN IF token = NoTokenString
       THEN [ status |-> 401, error |-> "Token necessario", admin |-> BadToken ]
       ELSE IF jwtVerify(jwtDecode(token))
            THEN [ status |-> 200, error |-> "", admin |-> jwtDecode(token) ]
            ELSE [ status |-> 401, error |-> "Token invalido", admin |-> BadToken ]

\* The bytes behind the base64 texts of the model, and the binary frames
\* an agent sends with ws.send(buf, { binary: true }).
FrameBytes == {"ABC", "DEF"}
BufferFromBase64(b64) ==
    IF b64 = "QUJD" THEN "ABC" ELSE IF b64 = "REVG" THEN "DEF" ELSE ""
BinaryFrames == { [json |-> FALSE, binary |-> TRUE, bytes |-> b] : b \in FrameBytes }

stripDataUrlToBase64(raw) ==
    IF raw = "data:image/jpeg;base64,REVG"
    THEN [ mime |-> "image/jpeg", base64 |-> "REVG", isDataUrl |-> TRUE ]
    ELSE [ mime |-> "image/jpeg", base64 |-> raw, isDataUrl |-> FALSE ]

\* What GET /frame answers for a stored frame text ("": none).
FrameReply(frameRaw) ==
    IF frameRaw = ""
    THEN [ status |-> 404 ]
    ELSE [ status |-> 200, mime |-> stripDataUrlToBase64(frameRaw).mime,
           body |-> BufferFromBase64(stripDataUrlToBase64(frameRaw).base64) ]

\* Mutant: /frame serves the frame of a connected device only.
GetFrame_OnlineOnly(h, q, deviceId) ==
    /\ http' = IF authenticateAdminFlex(h, q).status # 200
               THEN [ status |-> 401, error |-> authenticateAdminFlex(h, q).error ]
               ELSE IF \E i \in 1..Len(devices) :
                          devices[i].id = deviceId /\ devices[i].connected
                    THEN FrameReply(lastFrameByDevice[deviceId])
                    ELSE [ status |-> 404 ]
    /\ out' = << >>
    /\ lastLog' = "HTTP GET /api/devices/:deviceId/frame"
    /\ UNCHANGED << restVars, aliasVars, now, ticks, devices, wsAgentsByDeviceId, lastFrameByDevice,
                    lastFrameSentAtByDevice, clients, viewers >>

\* GET /api/devices/:deviceId/frame
GetFrame(h, q, deviceId) ==
    /\ http' = IF authenticateAdminFlex(h, q).status # 200
               THEN [ status |-> 401, error |-> authenticateAdminFlex(h, q).error ]
               ELSE FrameReply(lastFrameByDevice[deviceId])
    /\ out' = << >>
    /\ lastLog' = "HTTP GET /api/devices/:deviceId/frame"
    /\ UNCHANGED << restVars, aliasVars, now, ticks, devices, wsAgentsByDeviceId, lastFrameByDevice,
                    lastFrameSentAtByDevice, clients, viewers >>

\* GET /api/devices/:deviceId/mjpeg behind authenticateAdminFlex.
MjpegRequest(v, h, q, deviceId) ==
    OpenMjpeg(v, authenticateAdminFlex(h, q).admin, deviceId)

\* Mutant: the timer of every viewer reads the frame of the first
\* viewer's device.
MjpegTick_FirstViewerDevice(v) ==
    LET first == IF viewers[1].alive THEN 1 ELSE v
        frameRaw == lastFrameByDevice[viewers[first].deviceId]
    IN /\ viewers[v].alive
       /\ http' = IF frameRaw = ""
                  THEN NoHttp
                  ELSE [ status |-> 200, viewer |-> v,
                         mime |-> stripDataUrlToBase64(frameRaw).mime,
                         body |-> BufferFromBase64(stripDataUrlToBase64(frameRaw).base64) ]
       /\ out' = << >>
       /\ UNCHANGED << restVars, aliasVars, lastLog, now, ticks, devices, wsAgentsByDeviceId, lastFrameByDevice,
                       lastFrameSentAtByDevice, clients, viewers >>

\* One firing of the setInterval of an MJPEG response (every 120 ms): the
\* part written, if any, is left in http.
MjpegTick(v) ==
    LET frameRaw == lastFrameByDevice[viewers[v].deviceId]
    IN /\ viewers[v].alive
       /\ http' = IF frameRaw = ""
                  THEN NoHttp
                  ELSE [ status |-> 200, viewer |-> v,
                         mime |-> stripDataUrlToBase64(frameRaw).mime,
                         body |-> BufferFromBase64(stripDataUrlToBase64(frameRaw).base64) ]
       /\ out' = << >>
       /\ UNCHANGED << restVars, aliasVars, lastLog, now, ticks, devices, wsAgentsByDeviceId, lastFrameByDevice,
                       lastFrameSentAtByDevice, clients, viewers >>

\* ------------------------------------------------------------------------
\* Aliases
\* ------------------------------------------------------------------------
\* authenticateAdmin: the Authorization header must be there and verify.
authenticateAdmin(h) ==
    IF h = NoAuthorization
    THEN [ status |-> 401, error |-> "Token necessario" ]
    ELSE IF h.scheme = "Bearer" /\ jwtVerify(jwtDecode(h.value))
         THEN [ status |-> 200, error |-> "" ]
         ELSE [ status |-> 401, error |-> "Token invalido" ]

\* GET /api/device-aliases
GetAliases(h) ==
    /\ http' = IF authenticateAdmin(h).status # 200
               THEN [ status |-> 401, error |-> authenticateAdmin(h).error ]
               ELSE [ status |-> 200, aliases |-> deviceAliases ]
    /\ out' = << >>
    /\ lastLog' = "HTTP GET /api/device-aliases"
    /\ UNCHANGED << restVars, aliasVars, now, ticks, devices, wsAgentsByDeviceId, lastFrameByDevice,
                    lastFrameSentAtByDevice, clients, viewers >>

\* PUT /api/device-aliases/:deviceId with body { label }; written says
\* whether fs.writeFileSync succeeds (saveJsonSafe swallows the failure).
PutAlias(h, deviceId, label, written) ==
    LET id == normDeviceId(deviceId)
        lbl == IF label # Absent THEN TrimLabel(label) ELSE ""
        entry == [ label |-> lbl, updatedAt |-> now ]
    IN /\ IF authenticateAdmin(h).status # 200
          THEN /\ http' = [ status |-> 401, error |-> authenticateAdmin(h).error ]
               /\ UNCHANGED aliasVars
          ELSE IF id = NoDeviceId
               THEN /\ http' = [ status |-> 400, error |-> "deviceId invalido" ]
                    /\ UNCHANGED aliasVars
               ELSE /\ deviceAliases' = [deviceAliases EXCEPT ![id] = entry]
                    /\ aliasesFile' = IF written THEN JsonStringify(deviceAliases')
                                                   ELSE aliasesFile
                    /\ http' = [ status |-> 200, ok |-> TRUE, deviceId |-> id,
                                 label |-> lbl, updatedAt |-> now ]
       /\ out' = << >>
       /\ lastLog' = "HTTP PUT /api/device-aliases/:deviceId"
       /\ UNCHANGED << restVars, now, ticks, devices, wsAgentsByDeviceId, lastFrameByDevice,
                       lastFrameSentAtByDevice, clients, viewers >>

\* The process is started again: memory is as at the start, the alias
\* object is loaded from the file.
Restart ==
    /\ deviceAliases' = loadJsonSafe(aliasesFile)
    /\ complianceEvents' = loadComplianceEvents(complianceFile)
    /\ complianceByDevice' = recomputeComplianceAgg(complianceEvents')
    /\ devices' = << >>
    /\ wsAgentsByDeviceId' = [d \in DeviceIds |-> 0]
    /\ lastFrameByDevice' = [d \in DeviceIds |-> ""]
    /\ lastFrameSentAtByDevice' = [d \in DeviceIds |-> 0]
    /\ clients' = [s \in Sockets |-> NoSocket]
    /\ viewers' = [v \in ViewerIds |-> NoViewer]
    /\ out' = << >>
    /\ http' = NoHttp
    /\ lastLog' = "Admin Console build detectado"
    /\ logs' = StartupLogs
    /\ UNCHANGED << deskVars, aliasesFile, complianceFile, now, ticks, requests >>

\* The process stops inside the fs.writeFileSync of a PUT of an alias and
\* is started again.
PutAliasCrash(h, deviceId, label) ==
    LET id == normDeviceId(deviceId)
        lbl == IF label # Absent THEN TrimLabel(label) ELSE ""
        entry == [ label |-> lbl, updatedAt |-> now ]
        text == JsonStringify([deviceAliases EXCEPT ![id] = entry])
    IN /\ authenticateAdmin(h).status = 200
       /\ id # NoDeviceId
       /\ aliasesFile' = PartialWrite(text)
       /\ deviceAliases' = loadJsonSafe(aliasesFile')
       /\ complianceEvents' = loadComplianceEvents(complianceFile)
       /\ complianceByDevice' = recomputeComplianceAgg(complianceEvents')
       /\ devices' = << >>
       /\ wsAgentsByDeviceId' = [d \in DeviceIds |-> 0]
       /\ lastFrameByDevice' = [d \in DeviceIds |-> ""]
       /\ lastFrameSentAtByDevice' = [d \in DeviceIds |-> 0]
       /\ clients' = [s \in Sockets |-> NoSocket]
       /\ viewers' = [v \in ViewerIds |-> NoViewer]
       /\ out' = << >>
       /\ http' = NoHttp
       /\ lastLog' = "Admin Console build detectado"
       /\ logs' = StartupLogs
       /\ UNCHANGED << deskVars, complianceFile, now, ticks, requests >>

\* ------------------------------------------------------------------------
\* Compliance events
\* ------------------------------------------------------------------------
\* GET /api/compliance/events, with the deviceId of the query or without.
GetComplianceEvents(h, deviceId) ==
    LET filterId == normDeviceId(deviceId)
    IN /\ http' = IF authenticateAdmin(h).status # 200
                  THEN [ status |-> 401, error |-> authenticateAdmin(h).error ]
                  ELSE [ status |-> 200,
                         events |-> IF filterId = NoDeviceId
                                    THEN complianceEvents
                                    ELSE SelectSeq(complianceEvents,
                                             LAMBDA e : e.deviceId = filterId) ]
       /\ out' = << >>
       /\ lastLog' = "HTTP GET /api/compliance/events"
       /\ UNCHANGED << restVars, aliasVars, now, ticks, devices, wsAgentsByDeviceId,
                       lastFrameByDevice, lastFrameSentAtByDevice, clients, viewers >>

\* POST /api/compliance/events with body { deviceId, content }; written
\* says whether fs.writeFileSync succeeds.
PostComplianceEvent(h, deviceId, content, written) ==
    LET id == normDeviceId(deviceId)
        found == detectCompliance(content)
        ev == [ deviceId |-> id, timestamp |-> now, severity |-> found.severity,
                suspicious |-> found.suspicious ]
        prev == complianceByDevice[id]
        agg == [ count |-> prev.count + 1, lastAt |-> ev.timestamp,
                 lastSeverity |-> ev.severity ]
    IN /\ Len(complianceEvents) < MaxEvents
       /\ IF authenticateAdmin(h).status # 200
          THEN /\ http' = [ status |-> 401, error |-> authenticateAdmin(h).error ]
               /\ out' = << >>
               /\ UNCHANGED complianceVars
          ELSE IF id = NoDeviceId
          THEN /\ http' = [ status |-> 400, error |-> "deviceId obrigatorio" ]
               /\ out' = << >>
               /\ UNCHANGED complianceVars
          ELSE IF content = ""
          THEN /\ http' = [ status |-> 400, error |-> "content obrigatorio" ]
               /\ out' = << >>
               /\ UNCHANGED complianceVars
          ELSE /\ complianceEvents' = Append(complianceEvents, ev)
               /\ IF ~written
                  THEN /\ http' = [ status |-> 500,
                                    error |-> "Falha ao persistir compliance event" ]
                       /\ out' = << >>
                       /\ UNCHANGED << complianceFile, complianceByDevice >>
                  ELSE /\ complianceFile' = StringifyEvents(complianceEvents')
                       /\ http' = [ status |-> 200, ok |-> TRUE,
                                    suspicious |-> found.suspicious, event |-> ev ]
                       /\ IF found.suspicious
                          THEN /\ complianceByDevice' =
                                      [complianceByDevice EXCEPT ![id] = agg]
                               /\ out' = broadcastToAdmins(clients,
                                      [ type |-> "compliance_event", deviceId |-> id,
                                        count |-> agg.count, severity |-> ev.severity,
                                        ts |-> ev.timestamp ])
                          ELSE /\ out' = << >>
                               /\ UNCHANGED complianceByDevice
       /\ UNCHANGED << deskVars, logVars, aliasVars, lastLog, now, ticks, devices,
                       wsAgentsByDeviceId, lastFrameByDevice, lastFrameSentAtByDevice,
                       clients, viewers >>

\* The process stops inside the fs.writeFileSync of a POST of a compliance
\* event and is started again.
PostComplianceCrash(h, deviceId, content) ==
    LET id == normDeviceId(deviceId)
        found == detectCompliance(content)
        ev == [ deviceId |-> id, timestamp |-> now, severity |-> found.severity,
                suspicious |-> found.suspicious ]
        text == StringifyEvents(Append(complianceEvents, ev))
    IN /\ Len(complianceEvents) < MaxEvents
       /\ authenticateAdmin(h).status = 200
       /\ id # NoDeviceId
       /\ content # ""
       /\ complianceFile' = PartialWrite(text)
       /\ complianceEvents' = loadComplianceEvents(complianceFile')
       /\ complianceByDevice' = recomputeComplianceAgg(complianceEvents')
       /\ deviceAliases' = loadJsonSafe(aliasesFile)
       /\ devices' = << >>
       /\ wsAgentsByDeviceId' = [d \in DeviceIds |-> 0]
       /\ lastFrameByDevice' = [d \in DeviceIds |-> ""]
       /\ lastFrameSentAtByDevice' = [d \in DeviceIds |-> 0]
       /\ clients' = [s \in Sockets |-> NoSocket]
       /\ viewers' = [v \in ViewerIds |-> NoViewer]
       /\ out' = << >>
       /\ http' = NoHttp
       /\ lastLog' = "Admin Console build detectado"
       /\ logs' = StartupLogs
       /\ UNCHANGED << deskVars, aliasesFile, now, ticks, requests >>

\* ------------------------------------------------------------------------
\* Logs
\* ------------------------------------------------------------------------
\* GET /api/logs from the client at address ip: the HTTP logger adds its
\* entry, then the route answers with the buffer.
GetLogs(h, ip) ==
    /\ requests < MaxRequests
    /\ requests' = requests + 1
    /\ logs' = addLog(logs, "INFO", "HTTP GET /api/logs", ip)
    /\ lastLog' = "HTTP GET /api/logs"
    /\ http' = IF authenticateAdmin(h).status # 200
               THEN [ status |-> 401, error |-> authenticateAdmin(h).error ]
               ELSE [ status |-> 200, logs |-> logs' ]
    /\ out' = << >>
    /\ UNCHANGED << deskVars, complianceVars, aliasVars, now, ticks, devices,
                    wsAgentsByDeviceId, lastFrameByDevice, lastFrameSentAtByDevice,
                    clients, viewers >>

\* ------------------------------------------------------------------------
\* The desktop agent: session, consent and stream (main.js)
\* ------------------------------------------------------------------------
hubVars == << now, ticks, devices, wsAgentsByDeviceId, lastFrameByDevice,
              lastFrameSentAtByDevice, clients, viewers, out, http, lastLog,
              aliasVars, complianceVars, logVars >>

\* sendFrameBinary up to its await: the four gates.
FrameGatesOpen(a) ==
    /\ a.ws = "OPEN"
    /\ a.streaming
    /\ a.viewerActive
    /\ a.consentGranted

\* loop(): returns when streaming is off; otherwise runs sendFrameBinary,
\* which either starts a capture or returns, leaving the loop to its timer.
LoopStep(a) ==
    IF ~a.streaming THEN "none"
    ELSE IF FrameGatesOpen(a) THEN "capturing" ELSE "timer"

FreeLoop == CHOOSE l \in LoopIds : loops[l] = "none"
FreePrompt == CHOOSE i \in PromptIds : prompts[i].kind = "none"

\* startStreaming() in state a: nothing when streaming already, else the
\* flag is set and a new loop makes its first step.
StartStreamingOk(a) == a.streaming \/ \E l \in LoopIds : loops[l] = "none"
startStreaming(a, lps) ==
    IF a.streaming
    THEN [ agent |-> a, loops |-> lps ]
    ELSE LET a1 == [a EXCEPT !.streaming = TRUE]
         IN [ agent |-> a1, loops |-> [lps EXCEPT ![FreeLoop] = LoopStep(a1)] ]

\* scheduleReconnect(): a pending timer is cleared, a new one is set.
scheduleReconnect_Never(a) == a

scheduleReconnect(a) == [a EXCEPT !.timers = 1]

\* connectWs(): from app.whenReady (no socket yet) or from the reconnect
\* timer, which is then spent.  The listeners of the socket in ws are
\* removed and a new socket gets its own.
ConnectWs ==
    /\ agent.ws = "NONE" \/ agent.timers > 0
    /\ agent.connects < MaxConnects
    /\ agent' = [agent EXCEPT !.ws = "CONNECTING", !.connects = @ + 1,
                              !.enabledOnWs = FALSE,
                              !.timers = IF @ > 0 THEN @ - 1 ELSE 0,
                              !.listeners = IF agent.ws = "NONE" THEN @ + 1
                                            ELSE (@ - 1) + 1]
    /\ sent' = << >>
    /\ UNCHANGED << prompts, loops, lockVars, config, hubVars >>

\* ws.on("open")
WsOpen ==
    /\ agent.ws = "CONNECTING"
    /\ agent' = [agent EXCEPT !.ws = "OPEN"]
    /\ sent' = << >>
    /\ UNCHANGED << prompts, loops, lockVars, config, hubVars >>

\* ws.on("close"), after a failed connection attempt (the error handler
\* closes the socket) or the end of an open one: the session is reset and
\* the reconnect timer armed.
WsClose ==
    /\ agent.ws \in {"CONNECTING", "OPEN"}
    /\ agent' = scheduleReconnect(
                   [agent EXCEPT !.ws = "CLOSED", !.streaming = FALSE,
                                 !.consentGranted = FALSE, !.viewerActive = FALSE,
                                 !.consentPromptOpen = FALSE, !.staleGrant = FALSE])
    /\ sent' = << >>
    /\ UNCHANGED << prompts, loops, lockVars, config, hubVars >>

\* { type: "stream-enable" }
OnStreamEnable ==
    /\ agent.ws = "OPEN"
    /\ LET a1 == [agent EXCEPT !.viewerActive = TRUE, !.enabledOnWs = TRUE]
       IN IF a1.consentGranted
          THEN /\ StartStreamingOk(a1)
               /\ agent' = startStreaming(a1, loops).agent
               /\ loops' = startStreaming(a1, loops).loops
               /\ UNCHANGED prompts
          ELSE IF a1.consentPromptOpen
          THEN /\ agent' = a1
               /\ UNCHANGED << prompts, loops >>
          ELSE /\ \E i \in PromptIds : prompts[i].kind = "none"
               /\ agent' = [a1 EXCEPT !.consentPromptOpen = TRUE]
               /\ prompts' = [prompts EXCEPT ![FreePrompt] =
                                 [ kind |-> "viewer", stale |-> FALSE ]]
               /\ UNCHANGED loops
    /\ sent' = << >>
    /\ UNCHANGED << lockVars, config, hubVars >>

\* { type: "stream-disable" }.  Every dialog that is open now was opened
\* before this stream-disable: it is marked stale.
OnStreamDisable ==
    /\ agent.ws = "OPEN"
    /\ agent' = [agent EXCEPT !.viewerActive = FALSE, !.streaming = FALSE,
                              !.consentGranted = FALSE, !.staleGrant = FALSE]
    /\ prompts' = [i \in PromptIds |->
                     IF prompts[i].kind = "none" THEN prompts[i]
                     ELSE [prompts[i] EXCEPT !.stale = TRUE]]
    /\ sent' = << >>
    /\ UNCHANGED << loops, lockVars, config, hubVars >>

\* { type: "consent_request" }
OnConsentRequest ==
    /\ agent.ws = "OPEN"
    /\ IF agent.consentGranted
       THEN /\ sent' = << [type |-> "consent_response", accepted |-> TRUE] >>
            /\ IF agent.viewerActive
               THEN /\ StartStreamingOk(agent)
                    /\ agent' = startStreaming(agent, loops).agent
                    /\ loops' = startStreaming(agent, loops).loops
               ELSE UNCHANGED << agent, loops >>
            /\ UNCHANGED prompts
       ELSE /\ \E i \in PromptIds : prompts[i].kind = "none"
            /\ prompts' = [prompts EXCEPT ![FreePrompt] =
                              [ kind |-> "support", stale |-> FALSE ]]
            /\ sent' = << >>
            /\ UNCHANGED << agent, loops >>
    /\ UNCHANGED << lockVars, config, hubVars >>

\* The user answers the dialog of ensureConsentForViewer; on "Permitir"
\* the stream-enable handler goes on to startStreaming().
AnswerViewerPrompt(i, accepted) ==
    /\ prompts[i].kind = "viewer"
    /\ prompts' = [prompts EXCEPT ![i] = NoPrompt]
    /\ IF accepted
       THEN LET a1 == [agent EXCEPT !.consentGranted = TRUE,
                                    !.consentPromptOpen = FALSE,
                                    !.staleGrant = prompts[i].stale]
            IN /\ StartStreamingOk(a1)
               /\ agent' = startStreaming(a1, loops).agent
               /\ loops' = startStreaming(a1, loops).loops
       ELSE /\ agent' = [agent EXCEPT !.consentGranted = FALSE, !.streaming = FALSE,
                                      !.consentPromptOpen = FALSE,
                                      !.staleGrant = FALSE]
            /\ UNCHANGED loops
    /\ sent' = << >>
    /\ UNCHANGED << lockVars, config, hubVars >>

\* The user answers the dialog of a consent_request.
AnswerSupportPrompt(i, accepted) ==
    /\ prompts[i].kind = "support"
    /\ prompts' = [prompts EXCEPT ![i] = NoPrompt]
    /\ sent' = IF agent.ws = "OPEN"
               THEN << [type |-> "consent_response", accepted |-> accepted] >>
               ELSE << >>
    /\ IF accepted
       THEN LET a1 == [agent EXCEPT !.consentGranted = TRUE,
                                    !.staleGrant = prompts[i].stale]
            IN IF a1.viewerActive
               THEN /\ StartStreamingOk(a1)
                    /\ agent' = startStreaming(a1, loops).agent
                    /\ loops' = startStreaming(a1, loops).loops
               ELSE /\ agent' = a1
                    /\ UNCHANGED loops
       ELSE /\ agent' = [agent EXCEPT !.consentGranted = FALSE, !.streaming = FALSE,
                                      !.staleGrant = FALSE]
            /\ UNCHANGED loops
    /\ UNCHANGED << lockVars, config, hubVars >>

\* setTimeout(loop, FPS_MS) fires.
LoopTimer(l) ==
    /\ loops[l] = "timer"
    /\ loops' = [loops EXCEPT ![l] = LoopStep(agent)]
    /\ sent' = << >>
    /\ UNCHANGED << agent, prompts, lockVars, config, hubVars >>

\* captureJpegBuffer resolves, with a buffer or with null; sendFrameBinary
\* goes on to ws.send(buf, { binary: true }), which throws (and is caught)
\* unless ws is open; the loop sets its timer.
CaptureDone(l, captured) ==
    /\ loops[l] = "capturing"
    /\ loops' = [loops EXCEPT ![l] = "timer"]
    /\ sent' = IF captured /\ agent.ws = "OPEN"
               THEN << [type |-> "frame", binary |-> TRUE] >>
               ELSE << >>
    /\ UNCHANGED << agent, prompts, lockVars, config, hubVars >>

\* ------------------------------------------------------------------------
\* The desktop agent: global lock (main.js)
\* ------------------------------------------------------------------------
\* process.kill(pid, 0) succeeds.
processExists(pid) ==
    /\ pid \in AgentPids
    /\ procs[pid].pc \notin {"off", "exited", "dead"}

Goto(p, pc) == procs' = [procs EXCEPT ![p].pc = pc]

\* app.whenReady(): the process calls tryAcquireGlobalLock.
StartAgent(p) ==
    /\ procs[p].pc = "off"
    /\ \A q \in AgentPids : q < p => procs[q].pc # "off"
    /\ Goto(p, "existsSync")
    /\ UNCHANGED << lockFile, agentVars, config, hubVars >>

\* fs.existsSync(LOCK_PATH)
LockExists(p) ==
    /\ procs[p].pc = "existsSync"
    /\ Goto(p, IF lockFile.inode # 0 THEN "readFileSync" ELSE "openSync")
    /\ UNCHANGED << lockFile, agentVars, config, hubVars >>

\* fs.readFileSync + JSON.parse: a file that is gone or still empty throws
\* and the catch unlinks; otherwise the owner's pid is known.
LockRead(p) ==
    /\ procs[p].pc = "readFileSync"
    /\ IF lockFile.inode = 0 \/ lockFile.pid = 0
       THEN Goto(p, "unlinkSync")
       ELSE procs' = [procs EXCEPT ![p] = [ pc |-> "processExists",
                                            ownerPid |-> lockFile.pid ]]
    /\ UNCHANGED << lockFile, agentVars, config, hubVars >>

\* processExists(ownerPid): a live owner makes the call return ok: false
\* and the process quit; a dead one makes it unlink the file.
LockOwnerAlive(p) ==
    /\ procs[p].pc = "processExists"
    /\ Goto(p, IF processExists(procs[p].ownerPid) THEN "quit" ELSE "unlinkSync")
    /\ UNCHANGED << lockFile, agentVars, config, hubVars >>

\* fs.unlinkSync(LOCK_PATH): whatever file is at the path now is removed.
LockUnlink(p) ==
    /\ procs[p].pc = "unlinkSync"
    /\ lockFile' = NoLock
    /\ Goto(p, "openSync")
    /\ UNCHANGED << agentVars, config, hubVars >>

\* fs.openSync(LOCK_PATH, "wx"): creates the file, empty, or fails when a
\* file is there (ok: false, the process quits).
LockOpen(p) ==
    /\ procs[p].pc = "openSync"
    /\ IF lockFile.inode = 0
       THEN /\ lockFile' = [ inode |-> p, pid |-> 0 ]
            /\ Goto(p, "writeFileSync")
       ELSE /\ Goto(p, "quit")
            /\ UNCHANGED lockFile
    /\ UNCHANGED << agentVars, config, hubVars >>

\* fs.writeFileSync(fd, owner): the pid goes into the file the process
\* created, which may no longer be the file at the path; the call returns
\* ok: true and the agent runs.
LockWrite(p) ==
    /\ procs[p].pc = "writeFileSync"
    /\ lockFile' = IF lockFile.inode = p THEN [lockFile EXCEPT !.pid = p]
                                         ELSE lockFile
    /\ Goto(p, "running")
    /\ UNCHANGED << agentVars, config, hubVars >>

\* The user quits a running agent: before-quit calls releaseGlobalLock.
QuitAgent(p) ==
    /\ procs[p].pc = "running"
    /\ Goto(p, "quit")
    /\ UNCHANGED << lockFile, agentVars, config, hubVars >>

\* releaseGlobalLock: existsSync and readFileSync; only the owner goes on
\* to unlink.
ReleaseRead(p) ==
    /\ procs[p].pc = "quit"
    /\ Goto(p, IF lockFile.inode # 0 /\ lockFile.pid = p THEN "release" ELSE "exited")
    /\ UNCHANGED << lockFile, agentVars, config, hubVars >>

\* releaseGlobalLock: fs.unlinkSync(LOCK_PATH)
ReleaseUnlink(p) ==
    /\ procs[p].pc = "release"
    /\ lockFile' = NoLock
    /\ Goto(p, "exited")
    /\ UNCHANGED << agentVars, config, hubVars >>

\* A running agent is killed: no before-quit, the lock file stays.
KillAgent(p) ==
    /\ procs[p].pc = "running"
    /\ Goto(p, "dead")
    /\ UNCHANGED << lockFile, agentVars, config, hubVars >>

\* ------------------------------------------------------------------------
\* The desktop agent: identity (main.js)
\* ------------------------------------------------------------------------
\* String(t || "").trim().toUpperCase()
normTenant(t) ==
    IF t = Undefined THEN ""
    ELSE IF t = " cla2 " THEN "CLA2"
    ELSE t

resolveTenant(candidate) ==
    LET v == normTenant(candidate)
    IN IF v = "" THEN DEFAULT_TENANT
       ELSE IF v \notin VALID_TENANTS THEN DEFAULT_TENANT
       ELSE v

\* a || b || c on strings: the first that is not empty.
FirstTruthy(a, b, c) == IF a # "" THEN a ELSE IF b # "" THEN b ELSE c

\* The tenant getOrCreateAgentIdentity chooses.
IdentityTenant(env, onDisk) ==
    LET tenantFromEnv == resolveTenant(env)
        tenantFromDisk == resolveTenant(onDisk)
    IN FirstTruthy(tenantFromEnv, tenantFromDisk, DEFAULT_TENANT)

\* An installer or an administrator leaves agent-config.json with this
\* tenant field (or none) before the agent is started.
InstallConfig(t) ==
    /\ config' = [config EXCEPT !.file = t]
    /\ UNCHANGED << agentVars, lockVars, hubVars >>

\* The agent process is loaded with LOOKOUT_TENANT = env:
\* getOrCreateAgentIdentity reads the file, chooses the tenant and writes
\* the file back (writeConfigSafe may fail).
getOrCreateAgentIdentity(env, written) ==
    LET tenant == IdentityTenant(env, config.file)
    IN /\ config' = [ env |-> env, onDisk |-> config.file,
                      file |-> IF written THEN tenant ELSE config.file,
                      TENANT |-> tenant ]
       /\ UNCHANGED << agentVars, lockVars, hubVars >>

\* ------------------------------------------------------------------------
\* Specifications
\*
\* Next is every callback with every input.  The specifications below run
\* the same callbacks under the events one part of the hub is about, so
\* that each can be explored exhaustively.
\* ------------------------------------------------------------------------
PresenceMessages == { m \in Messages : m.json /\ m.type = "ping" }
ConsentMessages ==
    { m \in Messages :
        m.json /\ m.type \in {"request_remote_access", "consent_response"} }
FrameMessages == { m \in Messages : m.json /\ m.type \in {"frame", "screen_frame"} }
MasterToken == CHOOSE t \in AdminTokens : "*" \in t.allowedTenants

Next ==
    \/ \E dt \in ClockSteps : Tick(dt)
    \/ \E s \in Sockets, role \in Roles, deviceId \in DeviceIds \cup {NoDeviceId},
          token \in Tokens, v \in Versions \cup {NoVersion} :
          Connection(s, role, deviceId, token, v)
    \/ \E s \in Sockets, m \in Messages : OnMessage(s, m)
    \/ \E s \in Sockets : BeginClose(s)
    \/ \E s \in Sockets : OnClose(s)
    \/ PresenceSweep
    \/ \E token \in Tokens : GetDevices(token)
    \/ \E v \in ViewerIds, token \in Tokens, deviceId \in DeviceIds :
          OpenMjpeg(v, token, deviceId)
    \/ \E v \in ViewerIds : CloseMjpeg(v)

Spec == Init /\ [][Next]_vars

\* Sessions and presence: agents connect, reconnect, send heartbeats and
\* close while the clock runs and the sweep fires; one admin console
\* connects and listens.
NextSessions ==
    \/ \E dt \in PresenceSteps : Tick(dt)
    \/ \E s \in Sockets, deviceId \in DeviceIds, v \in Versions :
          Connection(s, "agent", deviceId, BadToken, v)
    \/ /\ \A t \in Sockets : ~clients[t].isAdmin
       /\ \E s \in Sockets : Connection(s, "admin", NoDeviceId, MasterToken, NoVersion)
    \/ \E s \in Sockets, m \in PresenceMessages : OnMessage(s, m)
    \/ \E s \in Sockets : BeginClose(s)
    \/ \E s \in Sockets : OnClose(s)
    \/ PresenceSweep

SpecSessions == Init /\ [][NextSessions]_vars

\* Consent: admins of every scope and agents connect, exchange the consent
\* messages and close; the clock stands.
NextConsent ==
    \/ \E s \in Sockets, role \in {"admin", "agent"}, deviceId \in DeviceIds,
          token \in AdminTokens :
          Connection(s, role, deviceId, token, NoVersion)
    \/ \E s \in Sockets, m \in ConsentMessages : OnMessage(s, m)
    \/ \E s \in Sockets : BeginClose(s)
    \/ \E s \in Sockets : OnClose(s)

SpecConsent == Init /\ [][NextConsent]_vars

\* Access: the consent traffic together with the REST and MJPEG routes,
\* called with every token.
NextAccess ==
    \/ \E s \in Sockets, role \in {"admin", "agent"}, deviceId \in DeviceIds,
          token \in AdminTokens :
          Connection(s, role, deviceId, token, NoVersion)
    \/ \E s \in Sockets, m \in ConsentMessages : OnMessage(s, m)
    \/ \E s \in Sockets : BeginClose(s)
    \/ \E s \in Sockets : OnClose(s)
    \/ \E token \in Tokens : GetDevices(token)
    \/ \E v \in ViewerIds, token \in Tokens, deviceId \in DeviceIds :
          OpenMjpeg(v, token, deviceId)
    \/ \E v \in ViewerIds : CloseMjpeg(v)

SpecAccess == Init /\ [][NextAccess]_vars

\* Frames: agents connect, reconnect and send frames while the clock runs.
NextFrames ==
    \/ \E dt \in FrameSteps : Tick(dt)
    \/ \E s \in Sockets, deviceId \in DeviceIds :
          Connection(s, "agent", deviceId, BadToken, NoVersion)
    \/ \E s \in Sockets, m \in FrameMessages : OnMessage(s, m)
    \/ \E s \in Sockets : OnClose(s)

SpecFrames == Init /\ [][NextFrames]_vars

\* Silence: agents connect and send heartbeats until the last advance of
\* the clock and then stay silent with their sockets open; one admin
\* console listens.  The clock passes the TTL and the sweep timer keeps
\* firing.
SilenceSteps == {PRESENCE_TTL_MS + 1}

NextSilence ==
    \/ \E dt \in SilenceSteps : Tick(dt)
    \/ /\ ticks < MaxTicks
       /\ \E s \in Sockets, deviceId \in DeviceIds, v \in Versions :
             Connection(s, "agent", deviceId, BadToken, v)
    \/ /\ \A t \in Sockets : ~clients[t].isAdmin
       /\ \E s \in Sockets : Connection(s, "admin", NoDeviceId, MasterToken, NoVersion)
    \/ /\ ticks < MaxTicks
       /\ \E s \in Sockets, m \in PresenceMessages : OnMessage(s, m)
    \/ PresenceSweep

\* Admission: agents of every version connect, reconnect and close while
\* the clock runs; one admin console listens and lists the devices.
NextAdmission ==
    \/ \E dt \in PresenceSteps : Tick(dt)
    \/ \E s \in Sockets, deviceId \in DeviceIds,
          v \in Versions \cup {OlderVersion, NoVersion} :
          Connection(s, "agent", deviceId, BadToken, v)
    \/ /\ \A t \in Sockets : ~clients[t].isAdmin
       /\ \E s \in Sockets : Connection(s, "admin", NoDeviceId, MasterToken, NoVersion)
    \/ \E s \in Sockets : OnClose(s)
    \/ GetDevices(MasterToken)

SpecAdmission == Init /\ [][NextAdmission]_vars

\* Binding: agents connect with every tenant in their URL (or none), with
\* and without a deviceId, reconnect and close.
NextBinding ==
    \/ \E s \in Sockets, deviceId \in DeviceIds \cup {NoDeviceId, BlankDeviceId},
          tenant \in Tenants \cup {NoTenant} :
          AgentConnection(s, deviceId, tenant, NoVersion)
    \/ \E s \in Sockets : BeginClose(s)
    \/ \E s \in Sockets : OnClose(s)

SpecBinding == Init /\ [][NextBinding]_vars

\* Admin admission: admin connections arrive with tokens that verify and
\* with tokens that do not; agents connect; both kinds send their messages
\* and close.
NextAdminAuth ==
    \/ \E s \in Sockets, token \in Tokens :
          Connection(s, "admin", NoDeviceId, token, NoVersion)
    \/ \E s \in Sockets, deviceId \in DeviceIds :
          Connection(s, "agent", deviceId, BadToken, NoVersion)
    \/ \E s \in Sockets, m \in PresenceMessages \cup ConsentMessages : OnMessage(s, m)
    \/ \E s \in Sockets : OnClose(s)

SpecAdminAuth == Init /\ [][NextAdminAuth]_vars

\* Binary frames: agents connect and send frames as JSON texts and as
\* binary messages while the clock runs; an admin fetches /frame.
NextBinary ==
    \/ \E dt \in FrameSteps : Tick(dt)
    \/ \E s \in Sockets, deviceId \in DeviceIds :
          Connection(s, "agent", deviceId, BadToken, NoVersion)
    \/ \E s \in Sockets, m \in FrameMessages \cup BinaryFrames : OnMessage(s, m)
    \/ \E deviceId \in DeviceIds : GetFrame(NoAuthorization, "jwt-admin", deviceId)

SpecBinary == Init /\ [][NextBinary]_vars

\* Stream: the agent of each device connects once and sends JSON frames an
\* interval apart; an admin opens, watches and closes MJPEG responses.
StreamSteps == {MIN_FRAME_INTERVAL_MS}

NextStream ==
    \/ \E dt \in StreamSteps : Tick(dt)
    \/ \E s \in Sockets, deviceId \in DeviceIds :
          /\ wsAgentsByDeviceId[deviceId] = 0
          /\ Connection(s, "agent", deviceId, BadToken, NoVersion)
    \/ \E s \in Sockets, m \in FrameMessages : OnMessage(s, m)
    \/ \E v \in ViewerIds, deviceId \in DeviceIds :
          MjpegRequest(v, NoAuthorization, "jwt-admin", deviceId)
    \/ \E v \in ViewerIds : MjpegTick(v)
    \/ \E v \in ViewerIds : CloseMjpeg(v)

SpecStream == Init /\ [][NextStream]_vars

\* Stream authorization: the agent of each device connects once and
\* sends JSON frames; /frame and /mjpeg are requested with every token in
\* the Authorization header, in the query, in both or in neither.
NextFlexAuth ==
    \/ \E s \in Sockets, deviceId \in DeviceIds :
          /\ wsAgentsByDeviceId[deviceId] = 0
          /\ Connection(s, "agent", deviceId, BadToken, NoVersion)
    \/ \E s \in Sockets, m \in FrameMessages : OnMessage(s, m)
    \/ \E h \in AuthHeaders, q \in TokenStrings, deviceId \in DeviceIds :
          GetFrame(h, q, deviceId)
    \/ \E v \in ViewerIds, h \in AuthHeaders, q \in TokenStrings, deviceId \in DeviceIds :
          MjpegRequest(v, h, q, deviceId)
    \/ \E v \in ViewerIds : CloseMjpeg(v)

SpecFlexAuth == Init /\ [][NextFlexAuth]_vars

\* Aliases: an admin puts and lists aliases while the clock runs; a write
\* of the file may fail; the process may be started again.
NextAliases ==
    \/ \E dt \in PresenceSteps : Tick(dt)
    \/ \E h \in AuthHeaders, deviceId \in DeviceIds \cup {BlankDeviceId},
          label \in Labels, written \in BOOLEAN :
          PutAlias(h, deviceId, label, written)
    \/ \E h \in AuthHeaders : GetAliases(h)
    \/ Restart

SpecAliases == Init /\ [][NextAliases]_vars

ComplianceSteps == {1}
ComplianceHeaders == {BearerHeader("jwt-admin"), BearerHeader("garbage")}

\* Compliance: an admin posts and lists compliance events while the clock
\* runs; a write of the file may fail; the process may be started again.
NextCompliance ==
    \/ \E dt \in ComplianceSteps : Tick(dt)
    \/ \E h \in ComplianceHeaders, deviceId \in DeviceIds \cup {BlankDeviceId},
          content \in Contents, written \in BOOLEAN :
          PostComplianceEvent(h, deviceId, content, written)
    \/ \E deviceId \in DeviceIds \cup {NoDeviceId} :
          GetComplianceEvents(BearerHeader("jwt-admin"), deviceId)
    \/ Restart

SpecCompliance == Init /\ [][NextCompliance]_vars

StoreDevice == "d1"
StoreLabels == {"Caixa 1", ""}
StoreContents == {"bom dia", "idiota"}

\* The stores: aliases are put and compliance events posted with writes
\* that succeed, fail, or are cut short by the process stopping.
NextStore ==
    \/ \E label \in StoreLabels, written \in BOOLEAN :
          PutAlias(BearerHeader("jwt-admin"), StoreDevice, label, written)
    \/ \E content \in StoreContents, written \in BOOLEAN :
          PostComplianceEvent(BearerHeader("jwt-admin"), StoreDevice, content, written)
    \/ \E label \in StoreLabels :
          PutAliasCrash(BearerHeader("jwt-admin"), StoreDevice, label)
    \/ \E content \in StoreContents :
          PostComplianceCrash(BearerHeader("jwt-admin"), StoreDevice, content)
    \/ \E dt \in PresenceSteps : Tick(dt)
    \/ Restart

SpecStore == Init /\ [][NextStore]_vars

\* Last seen: agents connect, reconnect, send heartbeats and frames and
\* close while the clock runs and the sweep fires.
LastSeenSteps == {PRESENCE_TTL_MS + 1}
LastSeenMessages ==
    { m \in Messages :
        m.json /\ (m.type = "ping" \/ (m.type = "frame" /\ m.jpegBase64 = "QUJD")) }

NextLastSeen ==
    \/ \E dt \in LastSeenSteps : Tick(dt)
    \/ \E s \in Sockets, deviceId \in DeviceIds, v \in Versions :
          Connection(s, "agent", deviceId, BadToken, v)
    \/ \E s \in Sockets, m \in LastSeenMessages : OnMessage(s, m)
    \/ \E s \in Sockets : OnClose(s)
    \/ PresenceSweep

SpecLastSeen == Init /\ [][NextLastSeen]_vars

\* Messages: sockets of every role are accepted and put every kind of
\* message on the wire; the clock stands.
MessageKinds ==
    { m \in Messages :
        \/ ~m.json
        \/ m.type \in {"ping", "other"}
        \/ m.type = "request_remote_access" /\ m.deviceId = "d1"
        \/ m.type = "consent_response" /\ m.accepted /\ m.deviceId = "d1"
        \/ m.type = "frame" /\ m.jpegBase64 = "QUJD" }

NextMessages ==
    \/ \E s \in Sockets, role \in Roles :
          Connection(s, role, "d1", MasterToken, NoVersion)
    \/ \E s \in Sockets, m \in MessageKinds : OnMessage(s, m)
    \/ \E s \in Sockets : OnClose(s)

SpecMessages == Init /\ [][NextMessages]_vars

\* Logs: the log is asked for again and again, the k-th time by the
\* client at address k, with a token that verifies or with none.
NextLogs ==
    \/ GetLogs(BearerHeader("jwt-admin"), requests + 1)
    \/ /\ requests = MAX_LOGS
       /\ GetLogs(NoAuthorization, requests + 1)

SpecLogs == Init /\ [][NextLogs]_vars

\* The agent's session: the agent connects and reconnects, the backend
\* sends stream-enable, stream-disable and consent_request, the user
\* answers the dialogs, timers fire and captures complete, in any order.
NextAgent ==
    \/ ConnectWs
    \/ WsOpen
    \/ WsClose
    \/ OnStreamEnable
    \/ OnStreamDisable
    \/ OnConsentRequest
    \/ \E i \in PromptIds, accepted \in BOOLEAN : AnswerViewerPrompt(i, accepted)
    \/ \E i \in PromptIds, accepted \in BOOLEAN : AnswerSupportPrompt(i, accepted)
    \/ \E l \in LoopIds : LoopTimer(l)
    \/ \E l \in LoopIds, captured \in BOOLEAN : CaptureDone(l, captured)

SpecAgent == Init /\ [][NextAgent]_vars

\* Reconnection: the same callbacks; the reconnect timer, once set, fires.
SpecReconnect == Init /\ [][NextAgent]_vars /\ WF_vars(ConnectWs)

\* The lock: agent processes start on one machine, quit or are killed;
\* their file-system calls interleave.
NextLock ==
    \/ \E p \in AgentPids : StartAgent(p)
    \/ \E p \in AgentPids : LockExists(p)
    \/ \E p \in AgentPids : LockRead(p)
    \/ \E p \in AgentPids : LockOwnerAlive(p)
    \/ \E p \in AgentPids : LockUnlink(p)
    \/ \E p \in AgentPids : LockOpen(p)
    \/ \E p \in AgentPids : LockWrite(p)
    \/ \E p \in AgentPids : QuitAgent(p)
    \/ \E p \in AgentPids : ReleaseRead(p)
    \/ \E p \in AgentPids : ReleaseUnlink(p)
    \/ \E p \in AgentPids : KillAgent(p)

SpecLock == Init /\ [][NextLock]_vars

\* Identity: the agent is installed and started again and again with every
\* value of LOOKOUT_TENANT over every agent-config.json.
NextIdentity ==
    \/ \E t \in TenantInputs : InstallConfig(t)
    \/ \E env \in TenantInputs, written \in BOOLEAN :
          getOrCreateAgentIdentity(env, written)

SpecIdentity == Init /\ [][NextIdentity]_vars

\* Throttle: agents connect and reconnect and send frames that carry a
\* payload, in both formats, less than an interval or an interval apart.
ThrottleMessages ==
    { m \in FrameMessages :
        \/ m.jpegBase64 = "QUJD"
        \/ m.jpeg = "data:image/jpeg;base64,REVG" }

NextThrottle ==
    \/ \E dt \in FrameSteps : Tick(dt)
    \/ \E s \in Sockets, deviceId \in DeviceIds :
          Connection(s, "agent", deviceId, BadToken, NoVersion)
    \/ \E s \in Sockets, m \in ThrottleMessages : OnMessage(s, m)

SpecThrottle == Init /\ [][NextThrottle]_vars

\* Revival: agents connect, reconnect, fall silent past the TTL and then
\* send heartbeats and frames again on their sockets, which stay open; the
\* sweep fires; one admin console listens.
NextRevival ==
    \/ \E dt \in LastSeenSteps : Tick(dt)
    \/ \E s \in Sockets, deviceId \in DeviceIds :
          Connection(s, "agent", deviceId, BadToken, NoVersion)
    \/ /\ \A t \in Sockets : ~clients[t].isAdmin
       /\ \E s \in Sockets : Connection(s, "admin", NoDeviceId, MasterToken, NoVersion)
    \/ \E s \in Sockets, m \in LastSeenMessages : OnMessage(s, m)
    \/ PresenceSweep

SpecRevival == Init /\ [][NextRevival]_vars

\* Retention: the agent of one device connects, reconnects, sends frames,
\* falls silent and closes; the sweep fires; admins of both scopes fetch
\* /frame of the device; viewers open, watch and close its /mjpeg.
AdminTokenStrings == { q \in TokenStrings : jwtVerify(jwtDecode(q)) }

NextRetention ==
    \/ \E dt \in LastSeenSteps : Tick(dt)
    \/ \E s \in Sockets : Connection(s, "agent", "d1", BadToken, NoVersion)
    \/ \E s \in Sockets, m \in ThrottleMessages : OnMessage(s, m)
    \/ \E s \in Sockets : OnClose(s)
    \/ PresenceSweep
    \/ \E q \in AdminTokenStrings : GetFrame(NoAuthorization, q, "d1")
    \/ \E v \in ViewerIds : MjpegRequest(v, NoAuthorization, "jwt-admin", "d1")
    \/ \E v \in ViewerIds : MjpegTick(v)
    \/ \E v \in ViewerIds : CloseMjpeg(v)

SpecRetention == Init /\ [][NextRetention]_vars

SpecSilence ==
    /\ Init
    /\ [][NextSilence]_vars
    /\ WF_vars(\E dt \in SilenceSteps : Tick(dt))
    /\ WF_vars(PresenceSweep)

TypeOK ==
    /\ now \in Nat
    /\ ticks \in 0..MaxTicks
    /\ \A d \in DeviceIds : wsAgentsByDeviceId[d] \in 0..MaxSockets

\* ------------------------------------------------------------------------
\* Vocabulary of the properties
\* ------------------------------------------------------------------------
\* Tenant policy of the specification.
canAccessTenant(allowed, tenant) == "*" \in allowed \/ tenant \in allowed

\* The tenant the agent of a machine puts in its URL (fixed per machine).
TenantOf(deviceId) == IF deviceId = "d1" THEN "CLA1" ELSE "DLA2"

\* Admitted agent sockets of device d whose readyState is OPEN.
OpenAgentSockets(d) ==
    { s \in Sockets : clients[s].isAgent /\ clients[s].deviceId = d
                      /\ clients[s].readyState = "OPEN" }

\* Admitted agent sockets of device d whose close event has not been handled.
LiveAgentSockets(d) ==
    { s \in Sockets : clients[s].isAgent /\ clients[s].deviceId = d
                      /\ clients[s].readyState \in {"OPEN", "CLOSING"} }

OpenAdmins == { s \in Sockets : clients[s].isAdmin /\ clients[s].readyState = "OPEN" }

DeviceConnected(d) == \E i \in 1..Len(devices) : devices[i].id = d /\ devices[i].connected

\* The agent of device d is active: registered in the map and OPEN.
AgentActive(d) ==
    /\ wsAgentsByDeviceId[d] # 0
    /\ clients[wsAgentsByDeviceId[d]].readyState = "OPEN"

MessagesTo(o, s) == SelectSeq(o, LAMBDA e : e.to = s)

ViewerCount(d) == Cardinality({ v \in ViewerIds : viewers[v].alive /\ viewers[v].deviceId = d })

\* ------------------------------------------------------------------------
\* C1: at no time do two open agent sessions exist for the same deviceId
\* (a new admission closes the earlier session first).
\* ------------------------------------------------------------------------
C1_AtMostOneOpenAgentSession ==
    \A d \in DeviceIds : Cardinality(OpenAgentSockets(d)) <= 1

\* ------------------------------------------------------------------------
\* C2 as stated: for every device d an admitted agent session that has not
\* closed exists iff devices[d].connected and d has an entry in the agent
\* map; without a session connected is false and the map has no entry.
\* ------------------------------------------------------------------------
C2_SessionIffConnectedAndRegistered ==
    \A d \in DeviceIds :
        /\ (LiveAgentSockets(d) # {}) <=> (DeviceConnected(d) /\ wsAgentsByDeviceId[d] # 0)
        /\ (LiveAgentSockets(d) = {}) => (~DeviceConnected(d) /\ wsAgentsByDeviceId[d] = 0)

\* C2 amended: connected implies an entry in the agent map; an entry of the
\* map is an admitted agent socket of that device whose close event has not
\* been handled; when no such socket is left, connected is false and the
\* map has no entry.
C2_ConnectedImpliesRegisteredSession ==
    \A d \in DeviceIds :
        /\ DeviceConnected(d) => wsAgentsByDeviceId[d] # 0
        /\ wsAgentsByDeviceId[d] # 0 => wsAgentsByDeviceId[d] \in LiveAgentSockets(d)
        /\ (LiveAgentSockets(d) = {}) => (~DeviceConnected(d) /\ wsAgentsByDeviceId[d] = 0)

\* The sweep has marked a device offline whose agent socket is still open
\* and registered.
C2_Witness ==
    /\ lastLog = "Presence TTL: marcando device offline"
    /\ \E d \in DeviceIds :
          /\ ~DeviceConnected(d)
          /\ AgentActive(d)
          /\ wsAgentsByDeviceId[d] \in OpenAgentSockets(d)

\* ------------------------------------------------------------------------
\* C3: an admin session never gets data about a device whose tenant its
\* allowedTenants do not cover: not in a broadcast, not in the snapshot,
\* not in GET /api/devices.
\* ------------------------------------------------------------------------
MessageDevices(msg) ==
    IF msg.type = "devices_snapshot"
    THEN { msg.devices[i].id : i \in 1..Len(msg.devices) }
    ELSE IF msg.type \in {"device_presence", "consent_response", "consent_status"}
         THEN { msg.deviceId }
         ELSE {}

C3_TenantIsolation ==
    /\ \A k \in 1..Len(out) :
          clients[out[k].to].isAdmin =>
              \A d \in MessageDevices(out[k].msg) :
                  canAccessTenant(clients[out[k].to].allowedTenants, TenantOf(d))
    /\ (lastLog = "HTTP GET /api/devices" /\ http.status = 200) =>
          \A k \in 1..Len(http.body) :
              canAccessTenant(http.allowed, TenantOf(http.body[k].id))

\* ------------------------------------------------------------------------
\* C4: an action of an admin on a device outside its tenants has no effect:
\* no consent_request is forwarded for it, and /mjpeg is not opened.
\* ------------------------------------------------------------------------
C4_ForbiddenActionRejected ==
    /\ \A j, k \in 1..Len(out) :
          (out[j].msg.type = "consent_request" /\ out[k].msg.type = "consent_status") =>
              canAccessTenant(clients[out[k].to].allowedTenants,
                              TenantOf(out[k].msg.deviceId))
    /\ ( /\ lastLog = "HTTP GET /api/devices/:deviceId/mjpeg"
         /\ http.status = 200
         /\ findDevice(devices, http.deviceId) # 0 ) =>
          canAccessTenant(http.allowed, TenantOf(http.deviceId))

\* ------------------------------------------------------------------------
\* C5: when the number of open MJPEG viewers of a device goes from 0 to 1
\* and the device's agent is active, stream-enable is sent to that agent.
\* ------------------------------------------------------------------------
C5_FirstViewerEnablesStream ==
    ( /\ lastLog = "HTTP GET /api/devices/:deviceId/mjpeg"
      /\ http.status = 200
      /\ ViewerCount(http.deviceId) = 1
      /\ AgentActive(http.deviceId) )
    => \E k \in 1..Len(out) :
          /\ out[k].to = wsAgentsByDeviceId[http.deviceId]
          /\ out[k].msg.type = "stream-enable"

\* ------------------------------------------------------------------------
\* C6: request_remote_access for a device whose agent is active sends one
\* consent_request with the requesting admin's username to that agent, to
\* no other socket, and consent_status "sent_to_agent" to the requester.
\* ------------------------------------------------------------------------
C6_RequestForwardedToActiveAgent ==
    [][ \A s \in Sockets, d \in DeviceIds :
          ( /\ clients[s].isAdmin
            /\ AgentActive(d)
            /\ OnMessage(s, [json |-> TRUE, type |-> "request_remote_access",
                             deviceId |-> d]) )
          => out' = << [ to |-> wsAgentsByDeviceId[d],
                         msg |-> [ type |-> "consent_request",
                                   admin |-> clients[s].adminUser ] ],
                       [ to |-> s,
                         msg |-> [ type |-> "consent_status", deviceId |-> d,
                                   status |-> "sent_to_agent" ] ] >> ]_vars

\* A request was forwarded while the agent of the other device was active.
C6_Witness ==
    /\ lastLog = "request_remote_access"
    /\ Len(out) = 2
    /\ out[1].msg.type = "consent_request"
    /\ out[1].msg.admin = "adminCLA"
    /\ out[2].msg.type = "consent_status"
    /\ \E d \in DeviceIds : d # out[2].msg.deviceId /\ AgentActive(d)

\* ------------------------------------------------------------------------
\* C7: request_remote_access for a device without an active agent answers
\* the requester alone with consent_response{accepted:false,
\* reason:"agent_offline"} and changes neither devices nor the agent map.
\* ------------------------------------------------------------------------
C7_OfflineAgentAnswered ==
    [][ \A s \in Sockets, d \in DeviceIds :
          ( /\ clients[s].isAdmin
            /\ ~AgentActive(d)
            /\ OnMessage(s, [json |-> TRUE, type |-> "request_remote_access",
                             deviceId |-> d]) )
          => /\ out' = << [ to |-> s,
                            msg |-> [ type |-> "consent_response", deviceId |-> d,
                                      accepted |-> FALSE,
                                      reason |-> "agent_offline" ] ] >>
             /\ devices' = devices
             /\ wsAgentsByDeviceId' = wsAgentsByDeviceId ]_vars

\* The requester was told agent_offline while a second admin and the agent
\* of the other device were connected.
C7_Witness ==
    /\ lastLog = "request_remote_access"
    /\ Len(out) = 1
    /\ out[1].msg.type = "consent_response"
    /\ out[1].msg.reason = "agent_offline"
    /\ Cardinality(OpenAdmins) = 2
    /\ \E d \in DeviceIds : d # out[1].msg.deviceId /\ AgentActive(d)

\* ------------------------------------------------------------------------
\* C8: a consent_response{accepted} of an admitted agent socket reaches
\* every open admin session (so every one whose tenants cover the device)
\* exactly once, as consent_response{deviceId, accepted} with the deviceId
\* of the sending socket and the accepted value sent, and no other socket.
\* ------------------------------------------------------------------------
C8_ConsentResponseRelayed ==
    [][ \A s \in Sockets, a \in BOOLEAN, body \in DeviceIds :
          ( /\ clients[s].isAgent
            /\ OnMessage(s, [json |-> TRUE, type |-> "consent_response",
                             accepted |-> a, deviceId |-> body]) )
          => /\ \A r \in OpenAdmins :
                   MessagesTo(out', r) =
                       << [ to |-> r,
                            msg |-> [ type |-> "consent_response",
                                      deviceId |-> clients[s].deviceId,
                                      accepted |-> a ] ] >>
             /\ \A k \in 1..Len(out') : out'[k].to \in OpenAdmins ]_vars

\* Two admins, one of them scoped to the device's tenant, got the relayed
\* acceptance.
C8_Witness ==
    /\ lastLog = "consent_response"
    /\ Len(out) = 2
    /\ \A k \in 1..2 : out[k].msg.type = "consent_response" /\ out[k].msg.accepted
    /\ \E k \in 1..2 :
          /\ "*" \notin clients[out[k].to].allowedTenants
          /\ canAccessTenant(clients[out[k].to].allowedTenants,
                             TenantOf(out[k].msg.deviceId))

\* ------------------------------------------------------------------------
\* C9: a frame is stored for device d at time t only if no frame was stored
\* for d before or the last one was stored at least MIN_FRAME_INTERVAL_MS
\* before t.
\* ------------------------------------------------------------------------
FrameStored(d) ==
    \/ lastFrameByDevice'[d] # lastFrameByDevice[d]
    \/ lastFrameSentAtByDevice'[d] # lastFrameSentAtByDevice[d]

C9_AcceptedFramesSpaced ==
    [][ \A d \in DeviceIds :
          FrameStored(d) =>
              /\ lastFrameSentAtByDevice'[d] = now'
              /\ \/ lastFrameSentAtByDevice[d] = 0
                 \/ now' - lastFrameSentAtByDevice[d] >= MIN_FRAME_INTERVAL_MS ]_vars

\* A frame has just been stored, later than the start by at least the
\* interval, from an agent that reconnected (an earlier socket of the same
\* device is closed).
C9_Witness ==
    /\ lastLog = "frame_received"
    /\ \E d \in DeviceIds :
          /\ lastFrameSentAtByDevice[d] = now
          /\ now >= StartTime + MIN_FRAME_INTERVAL_MS
          /\ OpenAgentSockets(d) # {}
          /\ \E s \in Sockets : /\ clients[s].isAgent
                                /\ clients[s].deviceId = d
                                /\ clients[s].readyState = "CLOSED"

\* ------------------------------------------------------------------------
\* C10: a sweep marks offline exactly the connected devices whose lastSeen
\* is older than PRESENCE_TTL_MS, broadcasts one device_presence offline
\* for each to every open admin, and touches no socket and no map entry.
\* ------------------------------------------------------------------------
TtlExceeded(dev) == dev.connected /\ now - dev.lastSeen > PRESENCE_TTL_MS

OfflineNotices(o, r, d) ==
    SelectSeq(o, LAMBDA e : /\ e.to = r
                            /\ e.msg.type = "device_presence"
                            /\ e.msg.deviceId = d
                            /\ ~e.msg.online)

C10_SweepMarksExactlyExpired ==
    [][ PresenceSweep =>
          /\ Len(devices') = Len(devices)
          /\ \A i \in 1..Len(devices) :
                /\ devices'[i] = IF TtlExceeded(devices[i])
                                 THEN [devices[i] EXCEPT !.connected = FALSE]
                                 ELSE devices[i]
                /\ \A r \in OpenAdmins :
                      Len(OfflineNotices(out', r, devices[i].id))
                          = IF TtlExceeded(devices[i]) THEN 1 ELSE 0
          /\ clients' = clients
          /\ wsAgentsByDeviceId' = wsAgentsByDeviceId ]_vars

\* The sweep has marked one device offline and told an admin, while the
\* other device, seen within the TTL, stays connected; both sockets are
\* open and registered.
C10_Witness ==
    /\ lastLog = "Presence TTL: marcando device offline"
    /\ Len(out) = 1
    /\ \E d, e \in DeviceIds :
          /\ ~DeviceConnected(d) /\ AgentActive(d)
          /\ out[1].msg.deviceId = d
          /\ DeviceConnected(e) /\ AgentActive(e)

\* ------------------------------------------------------------------------
\* C11: a connected device whose agent has gone silent (socket still open)
\* is eventually marked connected = false by the sweep, and every open
\* admin gets one device_presence{online:false} for it.
\* ------------------------------------------------------------------------
C11_SilentAgentGoesOffline ==
    \A d \in DeviceIds :
        DeviceConnected(d) ~>
            ( /\ ~DeviceConnected(d)
              /\ lastLog = "Presence TTL: marcando device offline"
              /\ \A r \in OpenAdmins : Len(OfflineNotices(out, r, d)) = 1 )

\* The sweep has marked a silent device offline and told the admin while
\* the agent's socket is still open and registered.
C11_Witness ==
    /\ lastLog = "Presence TTL: marcando device offline"
    /\ ticks > 0
    /\ \E d \in DeviceIds :
          /\ ~DeviceConnected(d)
          /\ wsAgentsByDeviceId[d] \in OpenAgentSockets(d)
          /\ \E r \in OpenAdmins : Len(OfflineNotices(out, r, d)) = 1

\* ------------------------------------------------------------------------
\* C12: an admin is told that a device is offline by the close of an agent
\* session only while the agent map still holds the entry of that device
\* (the broadcast comes before the removal, never after it).
\* ------------------------------------------------------------------------
C12_OfflineToldBeforeRemoval ==
    [][ \A s \in Sockets, r \in Sockets :
          ( /\ OnClose(s)
            /\ clients[s].isAgent
            /\ Len(OfflineNotices(out', r, clients[s].deviceId)) > 0 )
          => wsAgentsByDeviceId[clients[s].deviceId] # 0 ]_vars

\* ------------------------------------------------------------------------
\* C13: the admission of an agent connection with a deviceId creates the
\* device record if absent, sets connected and lastSeen, records the
\* agentVersion when one is supplied (and keeps the recorded one
\* otherwise), registers the socket under the deviceId and sends one
\* device_presence{online:true} with the device's agentVersion to every
\* open admin and to nobody else; GET /api/devices lists every device with
\* its connected flag.
\* ------------------------------------------------------------------------
DeviceRecord(devs, d) ==
    IF findDevice(devs, d) # 0
    THEN devs[findDevice(devs, d)]
    ELSE [ id |-> d, connected |-> FALSE, lastSeen |-> 0, agentVersion |-> NoVersion ]

C13_AdmissionEffects ==
    /\ [][ \A s \in Sockets, d \in DeviceIds, v \in Versions \cup {OlderVersion, NoVersion} :
             Connection(s, "agent", d, BadToken, v) =>
                LET old == DeviceRecord(devices, d)
                    new == DeviceRecord(devices', d)
                IN /\ findDevice(devices', d) # 0
                   /\ Len(devices') = IF findDevice(devices, d) = 0
                                      THEN Len(devices) + 1 ELSE Len(devices)
                   /\ \A i \in 1..Len(devices) :
                         devices[i].id # d => devices'[i] = devices[i]
                   /\ new.connected
                   /\ new.lastSeen = now
                   /\ new.agentVersion = IF v # NoVersion THEN v ELSE old.agentVersion
                   /\ wsAgentsByDeviceId'[d] = s
                   /\ clients'[s].isAgent /\ clients'[s].deviceId = d
                   /\ \A r \in OpenAdmins :
                         MessagesTo(out', r) =
                             << [ to |-> r,
                                  msg |-> [ type |-> "device_presence", deviceId |-> d,
                                            online |-> TRUE, lastSeen |-> now,
                                            agentVersion |-> new.agentVersion ] ] >>
                   /\ \A k \in 1..Len(out') : out'[k].to \in OpenAdmins ]_vars
    /\ [][ GetDevices(MasterToken) =>
             /\ http'.status = 200
             /\ Len(http'.body) = Len(devices)
             /\ \A i \in 1..Len(devices) :
                   /\ http'.body[i].id = devices[i].id
                   /\ http'.body[i].connected = devices[i].connected ]_vars

\* GET /api/devices lists as connected a device whose agent reconnected
\* without a version (an earlier socket of it is closed) and kept the
\* version recorded before; the admin was connected meanwhile.
C13_Witness ==
    /\ lastLog = "HTTP GET /api/devices"
    /\ http.status = 200
    /\ OpenAdmins # {}
    /\ \E k \in 1..Len(http.body) :
          /\ http.body[k].connected
          /\ http.body[k].agentVersion = OlderVersion
          /\ http.body[k].lastSeen > StartTime
          /\ AgentActive(http.body[k].id)
          /\ \E s \in Sockets : /\ clients[s].isAgent
                                /\ clients[s].deviceId = http.body[k].id
                                /\ clients[s].readyState = "CLOSED"

\* ------------------------------------------------------------------------
\* C14: a device known to the server is bound to one tenant: an agent
\* connection for it that claims another valid tenant is not admitted.
\* ------------------------------------------------------------------------
C14_TenantBoundAtFirstConnection ==
    [][ \A s \in Sockets, d \in DeviceIds :
          findDevice(devices, d) # 0 =>
             \E bound \in Tenants :
                \A tenant \in Tenants \ {bound} :
                   ~( /\ AgentConnection(s, d, tenant, NoVersion)
                      /\ clients'[s].isAgent
                      /\ wsAgentsByDeviceId'[d] = s ) ]_vars

\* ------------------------------------------------------------------------
\* C15: a role=agent connection whose deviceId is missing or blank is
\* closed (1008): its socket does not stay open, it is no agent session,
\* no device record is created and nothing is broadcast.
\* ------------------------------------------------------------------------
C15_AgentWithoutDeviceIdClosed ==
    [][ \A s \in Sockets, deviceId \in {NoDeviceId, BlankDeviceId},
          tenant \in Tenants \cup {NoTenant} :
          AgentConnection(s, deviceId, tenant, NoVersion) =>
             /\ clients'[s].readyState \in {"CLOSING", "CLOSED"}
             /\ ~clients'[s].isAgent
             /\ devices' = devices
             /\ wsAgentsByDeviceId' = wsAgentsByDeviceId
             /\ out' = << >> ]_vars

\* ------------------------------------------------------------------------
\* C16: a role=admin connection whose token does not verify (missing,
\* malformed, wrong signature: jwt.verify throws) is closed at once and is
\* never an admin session: it gets no snapshot and no broadcast, and no
\* message of it is handled.
\* ------------------------------------------------------------------------
Rejected(s) == clients[s].readyState # "NONE" /\ ~clients[s].listening

C16_BadAdminTokenRejected ==
    /\ [][ \A s \in Sockets, token \in Tokens :
             ( ~jwtVerify(token) /\ Connection(s, "admin", NoDeviceId, token, NoVersion) )
             => /\ clients'[s].readyState \in {"CLOSING", "CLOSED"}
                /\ ~clients'[s].isAdmin
                /\ ~clients'[s].listening
                /\ out' = << >>
                /\ devices' = devices ]_vars
    /\ [][ \A s \in Sockets :
             Rejected(s) =>
                /\ ~clients'[s].isAdmin
                /\ clients'[s].readyState # "OPEN"
                /\ MessagesTo(out', s) = << >>
                /\ \A m \in Messages : ~OnMessage(s, m) ]_vars

\* A broadcast has just reached an admitted admin while a socket rejected
\* for its token exists and got nothing.
C16_Witness ==
    /\ \E s \in Sockets : Rejected(s) /\ MessagesTo(out, s) = << >>
    /\ \E k \in 1..Len(out) :
          /\ clients[out[k].to].isAdmin
          /\ out[k].msg.type \in {"device_presence", "consent_response"}

\* ------------------------------------------------------------------------
\* C17: when an admitted agent sends bytes B as a binary message that the
\* throttle lets pass, GET /frame for its device answers 200 with a body
\* equal to B from then on (until a newer frame is accepted).
\* ------------------------------------------------------------------------
C17_BinaryFrameRoundTrip ==
    [][ \A s \in Sockets, b \in FrameBytes :
          ( /\ clients[s].isAgent
            /\ ~Throttled(lastFrameSentAtByDevice[clients[s].deviceId], now)
            /\ OnMessage(s, [json |-> FALSE, binary |-> TRUE, bytes |-> b]) )
          => /\ FrameReply(lastFrameByDevice'[clients[s].deviceId]).status = 200
             /\ FrameReply(lastFrameByDevice'[clients[s].deviceId]).body = b ]_vars

\* ------------------------------------------------------------------------
\* C18: the part an MJPEG viewer writes at a tick is the decoded lastFrame
\* of its device at that tick; nothing is written while the device has no
\* frame.
\* ------------------------------------------------------------------------
C18_MjpegPartIsLastFrame ==
    [][ \A v \in ViewerIds :
          MjpegTick(v) =>
             LET frameRaw == lastFrameByDevice[viewers[v].deviceId]
             IN IF frameRaw = ""
                THEN http' = NoHttp
                ELSE /\ http'.status = 200
                     /\ http'.viewer = v
                     /\ http'.body = FrameReply(frameRaw).body ]_vars

\* A viewer has just written the frame its device's agent sent an interval
\* after an earlier one, while another viewer watches the other device,
\* which has a different frame.
C18_Witness ==
    /\ "viewer" \in DOMAIN http
    /\ now > StartTime
    /\ lastFrameSentAtByDevice[viewers[http.viewer].deviceId] = now
    /\ \E u \in ViewerIds :
          /\ viewers[u].alive
          /\ viewers[u].deviceId # viewers[http.viewer].deviceId
          /\ lastFrameByDevice[viewers[u].deviceId] # ""
          /\ FrameReply(lastFrameByDevice[viewers[u].deviceId]).body # http.body

\* ------------------------------------------------------------------------
\* C19: on /frame and on /mjpeg a request with a token only in ?token= has
\* the outcome of the request with the same token only in an
\* Authorization: Bearer header, whatever the token (one that verifies or
\* one that does not; without a token the two requests are the same).
\* ------------------------------------------------------------------------
C19_QueryTokenAsBearer ==
    [][ \A t \in TokenStrings \ {NoTokenString}, d \in DeviceIds :
          /\ GetFrame(NoAuthorization, t, d) <=> GetFrame(BearerHeader(t), NoTokenString, d)
          /\ \A v \in ViewerIds :
                MjpegRequest(v, NoAuthorization, t, d)
                    <=> MjpegRequest(v, BearerHeader(t), NoTokenString, d) ]_vars

\* /frame has answered 200 with a stored frame while an MJPEG response
\* opened with a token is alive; requests without a usable token get 401.
C19_Witness ==
    /\ lastLog = "HTTP GET /api/devices/:deviceId/frame"
    /\ http.status = 200
    /\ http.body \in FrameBytes
    /\ \E v \in ViewerIds : viewers[v].alive
    /\ authenticateAdminFlex(NoAuthorization, "garbage").status = 401
    /\ authenticateAdminFlex(NoAuthorization, NoTokenString).status = 401

\* ------------------------------------------------------------------------
\* C20: after a PUT of an alias with an empty label for a device the alias
\* object has no entry for it, and when the file is written the file has
\* none either (so none is loaded at the next start).
\* ------------------------------------------------------------------------
C20_EmptyLabelDeletesAlias ==
    [][ \A h \in AuthHeaders, d \in DeviceIds, label \in Labels, written \in BOOLEAN :
          ( /\ authenticateAdmin(h).status = 200
            /\ label # Absent
            /\ TrimLabel(label) = ""
            /\ PutAlias(h, d, label, written) )
          => /\ deviceAliases'[d] = NoAlias
             /\ written => loadJsonSafe(aliasesFile')[d] = NoAlias ]_vars

\* ------------------------------------------------------------------------
\* C21: when the file write of an alias or compliance mutation fails, the
\* caller receives an error and the alias object, the event list and the
\* aggregate are what they were before the mutation.
\* ------------------------------------------------------------------------
C21_FailedWriteRollsBack ==
    [][ /\ \A d \in DeviceIds, label \in Labels :
             PutAlias(BearerHeader("jwt-admin"), d, label, FALSE)
             => /\ http'.status >= 400
                /\ deviceAliases' = deviceAliases
        /\ \A d \in DeviceIds, content \in Contents \ {""} :
             PostComplianceEvent(BearerHeader("jwt-admin"), d, content, FALSE)
             => /\ http'.status >= 400
                /\ complianceEvents' = complianceEvents
                /\ complianceByDevice' = complianceByDevice ]_vars

\* ------------------------------------------------------------------------
\* C22: whenever the process stops, device-aliases.json and
\* compliance-events.json each hold a complete text, the previous one or
\* the new one, never a part of one.
\* ------------------------------------------------------------------------
C22_FilesNeverPartial ==
    /\ aliasesFile.complete
    /\ complianceFile.complete

C24_AggregateIsRecomputation ==
    complianceByDevice = recomputeComplianceAgg(complianceEvents)

\* ------------------------------------------------------------------------
\* C25: while the device of an agent stays connected its lastSeen never
\* decreases: across every step that leaves it connected (admission of a
\* new socket, ping, frame, or anything else) the new lastSeen is at least
\* the old one.
\* ------------------------------------------------------------------------
C25_LastSeenMonotonic ==
    [][ \A i \in 1..Len(devices) :
          ( /\ devices[i].connected
            /\ i <= Len(devices')
            /\ devices'[i].connected )
          => /\ devices'[i].id = devices[i].id
             /\ devices'[i].lastSeen >= devices[i].lastSeen ]_vars

\* A frame of a connected device was stored after the clock advanced, and
\* stamped the device with the new time.
C25_Witness ==
    /\ ticks > 0
    /\ lastLog = "frame_received"
    /\ \E i \in 1..Len(devices) :
          /\ devices[i].connected
          /\ devices[i].lastSeen = now
          /\ lastFrameSentAtByDevice[devices[i].id] = now

\* ------------------------------------------------------------------------
\* C27: a message that is not JSON, or whose type the role of the socket
\* does not handle, is ignored: devices, agent map, stored frames and
\* throttle times stay, nothing is sent, and the socket stays as it was,
\* open and listening.
\* ------------------------------------------------------------------------
HandledBy(cl, m) ==
    /\ m.json
    /\ \/ m.type = "ping"
       \/ cl.isAdmin /\ m.type = "request_remote_access"
       \/ cl.isAgent /\ m.type \in {"consent_response", "frame", "screen_frame"}

C27_UnhandledMessageIgnored ==
    [][ \A s \in Sockets, m \in MessageKinds :
          ( /\ ~HandledBy(clients[s], m)
            /\ OnMessage(s, m) )
          => /\ UNCHANGED << devices, wsAgentsByDeviceId, lastFrameByDevice,
                             lastFrameSentAtByDevice, clients >>
             /\ out' = << >>
             /\ clients'[s].readyState = "OPEN"
             /\ clients'[s].listening ]_vars

\* An agent whose frame is stored has sent data that is not JSON.
C27_Witness ==
    /\ lastLog = "WS mensagem nao-JSON"
    /\ \E s \in Sockets :
          /\ clients[s].isAgent
          /\ clients[s].readyState = "OPEN"
          /\ lastFrameByDevice[clients[s].deviceId] # ""

\* ------------------------------------------------------------------------
\* C26: the log holds at most MAX_LOGS entries, and they are the entries
\* added last, in the order they were added.  (The entry of the start is
\* number 0 and the entry of the k-th request, which carries k, number k.)
\* ------------------------------------------------------------------------
C26_LogIsRingBuffer ==
    /\ Len(logs) <= MAX_LOGS
    /\ Len(logs) = IF requests + 1 < MAX_LOGS THEN requests + 1 ELSE MAX_LOGS
    /\ \A i \in 1..Len(logs) : logs[i].meta = requests - Len(logs) + i

\* The buffer was full and an entry was added: the entry of the start is
\* gone.
C26_Witness ==
    /\ requests > MAX_LOGS
    /\ Len(logs) = MAX_LOGS
    /\ logs[1].meta > 0
    /\ logs[MAX_LOGS].meta = requests

\* ------------------------------------------------------------------------
\* C28: whenever the agent sends a frame, the viewer is active (a
\* stream-enable was received on the connection the frame goes out on and
\* no stream-disable after it) and consent is granted.
\* ------------------------------------------------------------------------
FrameSent == \E k \in 1..Len(sent) : sent[k].type = "frame"

C28_FramesOnlyWhileViewerAndConsent ==
    FrameSent => /\ agent.viewerActive
                 /\ agent.consentGranted
                 /\ agent.enabledOnWs

\* ------------------------------------------------------------------------
\* C29: consentGranted is true only by the acceptance of a dialog that was
\* opened after the last stream-disable: a dialog that was open when a
\* stream-disable was processed never grants consent.
\* ------------------------------------------------------------------------
C29_ConsentNeedsFreshPrompt ==
    agent.consentGranted => ~agent.staleGrant

\* ------------------------------------------------------------------------
\* C30: at most one live agent process at a time has got ok: true from
\* tryAcquireGlobalLock, and releaseGlobalLock removes the lock file only
\* when the file at the path is the caller's.
\* ------------------------------------------------------------------------
C30_LockMutualExclusion ==
    /\ Cardinality({ p \in AgentPids : procs[p].pc = "running" }) <= 1
    /\ \A p \in AgentPids :
          procs[p].pc = "release" /\ lockFile.inode # 0 => lockFile.inode = p

\* C32: the tenant of a started agent is the valid LOOKOUT_TENANT when
\* there is one, otherwise the valid tenant of agent-config.json when there
\* is one, otherwise CLA1; it is always one of the four tenants.
ValidTenant(t) == normTenant(t) \in VALID_TENANTS

C32_TenantPriorityOrder ==
    config.TENANT # Undefined =>
        /\ config.TENANT \in VALID_TENANTS
        /\ config.TENANT =
             IF ValidTenant(config.env) THEN normTenant(config.env)
             ELSE IF ValidTenant(config.onDisk) THEN normTenant(config.onDisk)
             ELSE DEFAULT_TENANT

\* C31: after the agent's socket closed or failed to connect a new
\* connection attempt follows (as long as attempts are left in the model);
\* never is more than one reconnect timer pending, never has more than one
\* socket listeners.
C31_ReconnectsAfterClose ==
    /\ [](agent.timers <= 1 /\ agent.listeners <= 1)
    /\ (agent.ws = "CLOSED" /\ agent.connects < MaxConnects)
          ~> (agent.ws = "CONNECTING")

\* A second attempt is under way after the first one failed or ended.
C31_Witness == agent.ws = "CONNECTING" /\ agent.connects >= 2 /\ agent.timers = 0

\* C34: at most one consent dialog of the agent is open at any time.
OpenPrompts == { i \in PromptIds : prompts[i].kind # "none" }

C34_AtMostOnePromptOpen == Cardinality(OpenPrompts) <= 1

\* C35: from the close of the agent's connection until the next one is
\* open (no message can have arrived on it yet) the session is reset:
\* consentGranted, viewerActive and streaming are all false.
C35_SessionStaysResetAfterClose ==
    agent.ws \in {"CLOSED", "CONNECTING"} =>
        /\ ~agent.consentGranted
        /\ ~agent.viewerActive
        /\ ~agent.streaming

\* C39: at most one capture loop of the agent is alive (capturing or
\* waiting for its timer) at any time.
LiveLoops == { l \in LoopIds : loops[l] # "none" }

C39_AtMostOneCaptureLoop == Cardinality(LiveLoops) <= 1

\* ------------------------------------------------------------------------
\* C33: a frame that arrives less than MIN_FRAME_INTERVAL_MS after the
\* last stored frame of its device is dropped: no device's stored frame
\* and no device's time of the last stored frame changes, and the lastSeen
\* of the sender's device is the time of the arrival.
\* ------------------------------------------------------------------------
C33_ThrottledFrameDiscarded ==
    [][ \A s \in Sockets, m \in ThrottleMessages :
          ( /\ clients[s].isAgent
            /\ Throttled(lastFrameSentAtByDevice[clients[s].deviceId], now)
            /\ OnMessage(s, m) )
          => /\ UNCHANGED << lastFrameByDevice, lastFrameSentAtByDevice >>
             /\ \E i \in 1..Len(devices') :
                   /\ devices'[i].id = clients[s].deviceId
                   /\ devices'[i].lastSeen = now ]_vars

\* A frame was dropped after the clock advanced: the device was seen now,
\* its stored frame is older, by less than the interval.
C33_Witness ==
    /\ ticks > 0
    /\ lastLog = "WS message"
    /\ \E i \in 1..Len(devices) :
          /\ devices[i].lastSeen = now
          /\ lastFrameByDevice[devices[i].id] # ""
          /\ lastFrameSentAtByDevice[devices[i].id] < now
          /\ Throttled(lastFrameSentAtByDevice[devices[i].id], now)

\* ------------------------------------------------------------------------
\* C36: the close event of an agent socket of device d that is no longer
\* the one in the agent map (a newer socket of d was admitted and is open)
\* leaves the map entry of d, leaves devices[d].connected and sends no
\* device_presence{online:false} for d.
\* ------------------------------------------------------------------------
C36_StaleCloseKeepsNewerSession ==
    [][ \A s \in Sockets, d \in DeviceIds :
          ( /\ clients[s].isAgent
            /\ clients[s].deviceId = d
            /\ wsAgentsByDeviceId[d] \notin {0, s}
            /\ AgentActive(d)
            /\ OnClose(s) )
          => /\ wsAgentsByDeviceId'[d] = wsAgentsByDeviceId[d]
             /\ DeviceConnected(d)' = DeviceConnected(d)
             /\ \A r \in OpenAdmins : OfflineNotices(out', r, d) = << >> ]_vars

\* ------------------------------------------------------------------------
\* C37: connected goes from false to true only in the step that admits an
\* agent connection of the device; a ping or a frame refreshes lastSeen of
\* the sender's device, changes no connected flag and sends no
\* device_presence{online:true}.
\* ------------------------------------------------------------------------
OnlineNotices(o) ==
    SelectSeq(o, LAMBDA e : e.msg.type = "device_presence" /\ e.msg.online)

AdmittedNow(s, d) ==
    /\ clients[s].readyState = "NONE"
    /\ clients'[s].readyState = "OPEN"
    /\ clients'[s].isAgent
    /\ clients'[s].deviceId = d

C37_OnlyAdmissionSetsConnected ==
    [][ /\ \A d \in DeviceIds :
              (~DeviceConnected(d) /\ DeviceConnected(d)')
              => \E s \in Sockets : AdmittedNow(s, d)
        /\ \A s \in Sockets, m \in LastSeenMessages :
              OnMessage(s, m)
              => /\ \A d \in DeviceIds : DeviceConnected(d)' = DeviceConnected(d)
                 /\ OnlineNotices(out') = << >>
                 /\ clients[s].isAgent
                    => \E i \in 1..Len(devices') :
                          /\ devices'[i].id = clients[s].deviceId
                          /\ devices'[i].lastSeen = now ]_vars

\* After the sweep marked a device offline a message of its agent, whose
\* socket is still open and registered, refreshed lastSeen; the device is
\* still not connected and an admin is listening.
C37_Witness ==
    /\ ticks > 0
    /\ lastLog \in {"WS message", "frame_received"}
    /\ OpenAdmins # {}
    /\ \E i \in 1..Len(devices) :
          /\ ~devices[i].connected
          /\ devices[i].lastSeen = now
          /\ AgentActive(devices[i].id)

\* ------------------------------------------------------------------------
\* C38: no socket is both admin and agent; a consent_response or a frame
\* from a socket that is not an agent, and a request_remote_access from a
\* socket that is not an admin, change no device, no map entry and no
\* frame state and send nothing; a ping from a socket that is not an agent
\* changes none of them either and is answered by one pong to its sender.
\* ------------------------------------------------------------------------
AgentOnly(m) == m.json /\ m.type \in {"consent_response", "frame", "screen_frame"}
AdminOnly(m) == m.json /\ m.type = "request_remote_access"
IsPing(m) == m.json /\ m.type = "ping"

C38_RoleSeparation ==
    /\ [](\A s \in Sockets : ~(clients[s].isAdmin /\ clients[s].isAgent))
    /\ [][ \A s \in Sockets, m \in MessageKinds :
             ( /\ OnMessage(s, m)
               /\ \/ AgentOnly(m) /\ ~clients[s].isAgent
                  \/ AdminOnly(m) /\ ~clients[s].isAdmin
                  \/ IsPing(m) /\ ~clients[s].isAgent )
             => /\ UNCHANGED << devices, wsAgentsByDeviceId, lastFrameByDevice,
                                lastFrameSentAtByDevice, clients >>
                /\ out' = IF IsPing(m)
                          THEN << [to |-> s, msg |-> [type |-> "pong"]] >>
                          ELSE << >> ]_vars

\* With an agent registered and an admin and a socket without a role open,
\* a message was just ignored, and no frame was ever stored.
C38_Witness ==
    /\ lastLog = "WS message"
    /\ out = << >>
    /\ OpenAdmins # {}
    /\ AgentActive("d1")
    /\ lastFrameByDevice["d1"] = ""
    /\ \E s \in Sockets : /\ clients[s].readyState = "OPEN"
                          /\ clients[s].listening
                          /\ ~clients[s].isAdmin
                          /\ ~clients[s].isAgent

\* ------------------------------------------------------------------------
\* C40: a stored frame is never cleared; it changes only in a step that
\* stores an accepted frame of that device at the present time.  /frame
\* answers every admin whose token verifies with the stored frame, and the
\* MJPEG timer writes it, whether the device is connected or not.
\* ------------------------------------------------------------------------
C40_LastFrameRetained ==
    [][ /\ \A d \in DeviceIds :
              lastFrameByDevice[d] # ""
              => /\ lastFrameByDevice'[d] # ""
                 /\ lastFrameByDevice'[d] # lastFrameByDevice[d]
                    => /\ lastLog' = "frame_received"
                       /\ lastFrameSentAtByDevice'[d] = now
                       /\ lastFrameSentAtByDevice[d] < now
        /\ \A d \in DeviceIds, q \in AdminTokenStrings :
              (lastFrameByDevice[d] # "" /\ GetFrame(NoAuthorization, q, d))
              => /\ http'.status = 200
                 /\ http'.body = FrameReply(lastFrameByDevice[d]).body
        /\ \A v \in ViewerIds :
              (MjpegTick(v) /\ lastFrameByDevice[viewers[v].deviceId] # "")
              => /\ http'.status = 200
                 /\ http'.body = FrameReply(lastFrameByDevice[viewers[v].deviceId]).body
      ]_vars

\* /frame has just served the frame of a device that is not connected, has
\* no agent socket left and no viewer.
C40_Witness ==
    /\ lastLog = "HTTP GET /api/devices/:deviceId/frame"
    /\ http.status = 200
    /\ \E d \in DeviceIds :
          /\ ~DeviceConnected(d)
          /\ LiveAgentSockets(d) = {}
          /\ ViewerCount(d) = 0
          /\ lastFrameByDevice[d] # ""
          /\ http.body = FrameReply(lastFrameByDevice[d]).body
          /\ \A e \in DeviceIds \ {d} : lastFrameByDevice[e] = ""

====
